---------------------------- MODULE Spec2Model ----------------------------
(* Model of the retry executor (src/utils/retry.py), the Database and     *)
(* Cache connection managers (src/memory/database.py, cache.py) and the    *)
(* transaction scope of Database.transaction().                            *)
EXTENDS Integers, Sequences, FiniteSets, TLC

VARIABLES
    policy,      \* retry_with_backoff's arguments for the call under way
    call,        \* the wrapper's frame: position, loop index, locals, outcome
    attempts,    \* observed: number of invocations of the wrapped function
    delays,      \* observed: the delays passed to sleep, in ticks, in order
    outcomes,    \* observed: what each invocation of the wrapped function did
    mgr,         \* the manager object: its kind and its pool/client handle
    backend,     \* observed: pools constructed/closed, probes, backend calls
    op,          \* the last manager operation and how it ended
    pool,        \* the asyncpg pool: per connection, the task it is lent to (or 0)
    scope,       \* per task: the TransactionContext and its transaction
    registry,    \* the module global _db / _cache and the instances made so far
    caller,      \* per task: its init_*/close_* call, where it is suspended
    sync,        \* sync_wrapper's frame and what was observed of its call
    loop,        \* per task of the event loop: the decorated call it is in
    kv,          \* the Redis keyspace and the last call of the cache on it
    diag         \* test_connectivity.py: main()'s position, locals and result

vars == <<policy, call, attempts, delays, outcomes, mgr, backend, op, pool, scope,
          registry, caller, sync, loop, kv, diag>>

None == "None"

\* no exception: the value of last_exception and of an outcome's error
NoExc == [kind |-> "None"]

-----------------------------------------------------------------------------
(* Bounds of the model.                                                    *)

MaxRetriesBound == 3      \* max_retries ranges over 0..MaxRetriesBound
JitterSteps == 2          \* random.random() ranges over r/(2*JitterSteps)

\* One second is Unit ticks, so that every jittered delay is a whole number.
Unit == 2 * JitterSteps

InitialDelays == {1, 2}
ExponentialBases == {2, 3}
MaxDelays == {3, 60}

-----------------------------------------------------------------------------
(* Exceptions: a failure is a record of its class and of the invocation    *)
(* that raised it. Ancestors gives the classes an `except` clause matches. *)

NetworkErrors == {"ConnectionError", "TimeoutError", "PostgresConnectionError",
                  "RedisConnectionError", "ConnectError", "TimeoutException"}

AnyException == {"Exception"}

Ancestors(kind) ==
    CASE kind = "ConnectionRefusedError" ->
            {"ConnectionRefusedError", "ConnectionError", "OSError", "Exception"}
      [] kind = "TimeoutError" -> {"TimeoutError", "OSError", "Exception"}
      [] kind = "InvalidPasswordError" -> {"InvalidPasswordError", "Exception"}
      [] kind = "RuntimeError" -> {"RuntimeError", "Exception"}
      [] kind = "RetryError" -> {"RetryError", "Exception"}
      [] kind = "CancelledError" -> {"CancelledError", "BaseException"}
      [] OTHER -> {kind, "Exception"}

\* `except exceptions as e` (retry.py line 59): isinstance(e, exceptions)
Catches(exceptions, e) == Ancestors(e.kind) \cap exceptions # {}

\* What the wrapped function of the abstract executor may raise.
FailKinds == {"ConnectionRefusedError", "InvalidPasswordError"}

Failure(kind, n) == [kind |-> kind, at |-> n]

\* raise RetryError(f"Failed after {max_retries} retries: {str(e)}") from e:
\* the class has no attribute of its own (class RetryError(Exception): pass);
\* the instance holds its message and, as __cause__, the failure e
RetryError(p, e) ==
    [kind |-> "RetryError", cause |-> e,
     message |-> [retries |-> p.max_retries, error |-> e.kind]]

-----------------------------------------------------------------------------
(* retry_with_backoff: the delay computation.                              *)

RECURSIVE Pow(_, _)
Pow(b, n) == IF n = 0 THEN 1 ELSE b * Pow(b, n - 1)

Min(a, b) == IF a <= b THEN a ELSE b

\* mutant: the exponent counts attempts from one
BackoffSecondsFromOne(p, attempt) ==
    Min(p.initial_delay * Pow(p.exponential_base, attempt + 1), p.max_delay)

\* min(initial_delay * exponential_base**attempt, max_delay), in seconds
BackoffSeconds(p, attempt) ==
    Min(p.initial_delay * Pow(p.exponential_base, attempt), p.max_delay)

\* the values random.random() takes, as numerators over Unit: [0, 1)
RandomDraws == 0 .. (Unit - 1)

\* delay * (0.5 + random.random()), in ticks, for random() = r / Unit
Jitter(secs, r) == secs * (JitterSteps + r)

\* the delay slept after the failed attempt `attempt`, in ticks
ComputeDelay(p, attempt, r) ==
    IF p.jitter THEN Jitter(BackoffSeconds(p, attempt), r)
    ELSE BackoffSeconds(p, attempt) * Unit

\* the draws that matter: without jitter random() is not called
Draws(p) == IF p.jitter THEN RandomDraws ELSE {0}

-----------------------------------------------------------------------------
(* retry_with_backoff: the wrapper's loop.                                 *)

NewCall == [pc |-> "attempt", attempt |-> 0, last_exception |-> NoExc,
            delay |-> 0, result |-> None, error |-> NoExc]

\* mutant: a success does not leave the loop
OnSuccessContinues(c, v) ==
    [c EXCEPT !.pc = "attempt", !.attempt = c.attempt + 1, !.result = v]

\* return await func(*args, **kwargs)
OnSuccess(c, v) == [c EXCEPT !.pc = "returned", !.result = v]

\* mutant: the budget test is off by one
ExhaustedOffByOne(p, attempt) == attempt > p.max_retries

\* mutant: the budget test never holds
ExhaustedNever(p, attempt) == FALSE

\* if attempt >= max_retries
Exhausted(p, attempt) == attempt >= p.max_retries

\* mutant: every failure is caught, whatever its class
OnFailureCatchesAll(p, c, e, r) ==
    IF Exhausted(p, c.attempt)
    THEN [c EXCEPT !.pc = "raised", !.last_exception = e, !.error = RetryError(p, e)]
    ELSE [c EXCEPT !.pc = "sleep", !.last_exception = e,
                   !.delay = ComputeDelay(p, c.attempt, r)]

\* the wrapped function raised e; r is the value random.random() returns
OnFailure(p, c, e, r) ==
    IF ~Catches(p.exceptions, e)
    THEN [c EXCEPT !.pc = "raised", !.error = e]
    ELSE IF Exhausted(p, c.attempt)
    THEN [c EXCEPT !.pc = "raised", !.last_exception = e, !.error = RetryError(p, e)]
    ELSE [c EXCEPT !.pc = "sleep", !.last_exception = e,
                   !.delay = ComputeDelay(p, c.attempt, r)]

\* raise RetryError("Retry logic failed unexpectedly"): no cause, and a
\* message that names no number of retries
UnexpectedRetryError ==
    [kind |-> "RetryError", cause |-> NoExc,
     message |-> [retries |-> -1, error |-> "Retry logic failed unexpectedly"]]

\* the statements after the for loop: if last_exception: raise last_exception;
\* raise RetryError("Retry logic failed unexpectedly")
AfterLoop(c) ==
    [c EXCEPT !.pc = "after_loop", !.delay = 0,
              !.error = IF c.last_exception.kind # NoExc.kind THEN c.last_exception
                        ELSE UnexpectedRetryError]

\* asyncio.sleep(delay) returned: the next iteration of
\* `for attempt in range(max_retries + 1)`, or the end of the loop
OnWake(p, c) ==
    IF c.attempt + 1 < p.max_retries + 1
    THEN [c EXCEPT !.pc = "attempt", !.attempt = c.attempt + 1, !.delay = 0]
    ELSE AfterLoop(c)

\* what the observed sequence of delays becomes
Slept(c2, ds) == IF c2.pc = "sleep" THEN Append(ds, c2.delay) ELSE ds

-----------------------------------------------------------------------------
(* The executor around an arbitrary fallible function: every invocation    *)
(* either returns a value or raises one of FailKinds.                      *)

Values == {"a", "b"}

Policies ==
    [max_retries : 0 .. MaxRetriesBound,
     initial_delay : InitialDelays,
     max_delay : MaxDelays,
     exponential_base : ExponentialBases,
     jitter : BOOLEAN,
     exceptions : {NetworkErrors, AnyException}]

\* retry_on_network_error(max_retries=3, initial_delay=1.0)
NetworkPolicy ==
    [max_retries |-> 3, initial_delay |-> 1, max_delay |-> 60,
     exponential_base |-> 2, jitter |-> TRUE, exceptions |-> NetworkErrors]

\* the parts of the state that a specification does not use
NoManager == [kind |-> None, handle |-> 0]
NoBackend == [constructed |-> 0, probed |-> {}, closed |-> {}]
NoOp == [name |-> None, arg |-> None, env |-> None, before |-> 0, built |-> 0,
         status |-> None, result |-> None, error |-> NoExc, calls |-> 0]
NoPool == <<>>
NoScope == <<>>
NoRegistry == <<>>
NoCaller == <<>>
NoSync == <<>>
NoLoop == <<>>
NoKv == <<>>
NoDiag == <<>>

RetryInit ==
    /\ policy \in Policies
    /\ call = NewCall
    /\ attempts = 0
    /\ delays = <<>>
    /\ outcomes = <<>>
    /\ mgr = NoManager
    /\ backend = NoBackend
    /\ op = NoOp
    /\ pool = NoPool
    /\ scope = NoScope
    /\ registry = NoRegistry
    /\ caller = NoCaller
    /\ sync = NoSync
    /\ loop = NoLoop
    /\ kv = NoKv
    /\ diag = NoDiag

\* for attempt in range(max_retries + 1): try: return await func(...)
InvokeReturns ==
    /\ call.pc = "attempt"
    /\ call.attempt < policy.max_retries + 1
    /\ \E v \in Values :
          /\ call' = OnSuccess(call, v)
          /\ outcomes' = Append(outcomes, [ok |-> TRUE, val |-> v, exc |-> NoExc])
    /\ attempts' = attempts + 1
    /\ UNCHANGED <<policy, delays, mgr, backend, op, pool, scope, registry, caller,
                 sync, loop, kv, diag>>

\* ... except exceptions as e: raise RetryError, or compute the delay and sleep
InvokeRaises ==
    /\ call.pc = "attempt"
    /\ call.attempt < policy.max_retries + 1
    /\ \E k \in FailKinds, r \in Draws(policy) :
          LET e == Failure(k, attempts + 1)
              c2 == OnFailure(policy, call, e, r)
          IN /\ call' = c2
             /\ delays' = Slept(c2, delays)
             /\ outcomes' = Append(outcomes, [ok |-> FALSE, val |-> None, exc |-> e])
    /\ attempts' = attempts + 1
    /\ UNCHANGED <<policy, mgr, backend, op, pool, scope, registry, caller,
                 sync, loop, kv, diag>>

\* await asyncio.sleep(delay) / time.sleep(delay) returns
Wake ==
    /\ call.pc = "sleep"
    /\ call' = OnWake(policy, call)
    /\ UNCHANGED <<policy, attempts, delays, outcomes, mgr, backend, op, pool, scope, registry, caller,
                 sync, loop, kv, diag>>

RetryNext == InvokeReturns \/ InvokeRaises \/ Wake

SpecRetry == RetryInit /\ [][RetryNext]_vars

\* the wrapped function and the sleep return: a call that can take a step
\* takes it
SpecRetryFair == RetryInit /\ [][RetryNext]_vars /\ WF_vars(RetryNext)

-----------------------------------------------------------------------------
(* Cancellation of the task that awaits a decorated coroutine function.    *)
(* task.cancel() makes the pending await asyncio.sleep(delay) raise        *)
(* CancelledError; the await stands inside the except clause, after which  *)
(* no handler of the try statement applies.                                *)

\* mutant: the cancellation is taken for a failed attempt and retried
OnCancelRetried(c) ==
    [c EXCEPT !.pc = "attempt", !.attempt = c.attempt + 1,
              !.last_exception = [kind |-> "CancelledError"]]

\* await asyncio.sleep(delay) raises CancelledError: it leaves async_wrapper
OnCancel(c) == [c EXCEPT !.pc = "raised", !.error = [kind |-> "CancelledError"]]

\* the owning task is cancelled while the wrapper is in asyncio.sleep
CancelDuringSleep ==
    /\ call.pc = "sleep"
    /\ call' = OnCancel(call)
    /\ op' = [NoOp EXCEPT !.name = "cancel"]
    /\ UNCHANGED <<policy, attempts, delays, outcomes, mgr, backend, pool, scope,
                   registry, caller, sync, loop, kv, diag>>

CancelNext == InvokeReturns \/ InvokeRaises \/ Wake \/ CancelDuringSleep

SpecCancel == RetryInit /\ [][CancelNext]_vars

-----------------------------------------------------------------------------
(* sync_wrapper next to async_wrapper: the two wrappers of one decorated   *)
(* function are run side by side on the same policy and the same outcome   *)
(* of every invocation; each wrapper makes its own call of random.random().*)
(* The run is followed up to the first state in which the two generators   *)
(* have given different values.                                            *)

\* mutant: sync_wrapper sleeps the delay without the jitter factor
SyncOnFailureUnjittered(p, c, e, r) ==
    IF ~Catches(p.exceptions, e)
    THEN [c EXCEPT !.pc = "raised", !.error = e]
    ELSE IF Exhausted(p, c.attempt)
    THEN [c EXCEPT !.pc = "raised", !.last_exception = e, !.error = RetryError(p, e)]
    ELSE [c EXCEPT !.pc = "sleep", !.last_exception = e,
                   !.delay = BackoffSeconds(p, c.attempt) * Unit]

\* sync_wrapper: return func(*args, **kwargs)
SyncOnSuccess(c, v) == [c EXCEPT !.pc = "returned", !.result = v]

\* sync_wrapper: except exceptions as e: ... raise RetryError / time.sleep
SyncOnFailure(p, c, e, r) ==
    IF ~Catches(p.exceptions, e)
    THEN [c EXCEPT !.pc = "raised", !.error = e]
    ELSE IF c.attempt >= p.max_retries
    THEN [c EXCEPT !.pc = "raised", !.last_exception = e, !.error = RetryError(p, e)]
    ELSE [c EXCEPT !.pc = "sleep", !.last_exception = e,
                   !.delay =
                       LET delay == Min(p.initial_delay * Pow(p.exponential_base, c.attempt),
                                        p.max_delay)
                       IN IF p.jitter THEN Jitter(delay, r) ELSE delay * Unit]

\* time.sleep(delay) returned: the next iteration of
\* `for attempt in range(max_retries + 1)`, or the end of the loop
SyncOnWake(p, c) ==
    IF c.attempt + 1 < p.max_retries + 1
    THEN [c EXCEPT !.pc = "attempt", !.attempt = c.attempt + 1, !.delay = 0]
    ELSE AfterLoop(c)

SyncInit ==
    /\ policy \in Policies
    /\ call = NewCall
    /\ attempts = 0
    /\ delays = <<>>
    /\ outcomes = <<>>
    /\ mgr = NoManager
    /\ backend = NoBackend
    /\ op = NoOp
    /\ pool = NoPool
    /\ scope = NoScope
    /\ registry = NoRegistry
    /\ caller = NoCaller
    /\ sync = [call |-> NewCall, attempts |-> 0, delays |-> <<>>, same |-> TRUE]
    /\ loop = NoLoop
    /\ kv = NoKv
    /\ diag = NoDiag

\* what the second generator gives when the first gives r: the same value
\* or another one
OtherDraws(p, r) == IF p.jitter THEN {r, (r + 1) % Unit} ELSE {0}

\* func returns v under both wrappers
BothInvokeReturn ==
    /\ sync.same
    /\ call.pc = "attempt"
    /\ sync.call.pc = "attempt"
    /\ call.attempt < policy.max_retries + 1
    /\ sync.call.attempt < policy.max_retries + 1
    /\ \E v \in Values :
          /\ call' = OnSuccess(call, v)
          /\ sync' = [sync EXCEPT !.call = SyncOnSuccess(sync.call, v),
                                  !.attempts = sync.attempts + 1]
          /\ outcomes' = Append(outcomes, [ok |-> TRUE, val |-> v, exc |-> NoExc])
    /\ attempts' = attempts + 1
    /\ UNCHANGED <<policy, delays, mgr, backend, op, pool, scope, registry, caller,
                   loop, kv, diag>>

\* func raises e under both wrappers; random() gives r to one and r2 to the other
BothInvokeRaise ==
    /\ sync.same
    /\ call.pc = "attempt"
    /\ sync.call.pc = "attempt"
    /\ call.attempt < policy.max_retries + 1
    /\ sync.call.attempt < policy.max_retries + 1
    /\ \E k \in FailKinds, r \in Draws(policy) : \E r2 \in OtherDraws(policy, r) :
          LET e == Failure(k, attempts + 1)
              c2 == OnFailure(policy, call, e, r)
              s2 == SyncOnFailure(policy, sync.call, e, r2)
          IN /\ call' = c2
             /\ delays' = Slept(c2, delays)
             /\ sync' = [call |-> s2, attempts |-> sync.attempts + 1,
                         delays |-> Slept(s2, sync.delays),
                         same |-> sync.same /\ (r = r2 \/ c2.pc # "sleep")]
             /\ outcomes' = Append(outcomes, [ok |-> FALSE, val |-> None, exc |-> e])
    /\ attempts' = attempts + 1
    /\ UNCHANGED <<policy, mgr, backend, op, pool, scope, registry, caller,
                   loop, kv, diag>>

\* asyncio.sleep(delay) and time.sleep(delay) return
BothWake ==
    /\ sync.same
    /\ call.pc = "sleep"
    /\ sync.call.pc = "sleep"
    /\ call' = OnWake(policy, call)
    /\ sync' = [sync EXCEPT !.call = SyncOnWake(policy, sync.call)]
    /\ UNCHANGED <<policy, attempts, delays, outcomes, mgr, backend, op, pool, scope,
                   registry, caller, loop, kv, diag>>

SyncNext == BothInvokeReturn \/ BothInvokeRaise \/ BothWake

SpecSync == SyncInit /\ [][SyncNext]_vars

-----------------------------------------------------------------------------
(* The connection managers: Database (self.pool) and Cache (self.client).  *)
(* mgr.handle is the pool/client handle, 0 for None; a constructed pool is *)
(* named by its number. connect() runs under NetworkPolicy.                *)

MaxPools == 2             \* connect() is not called once MaxPools pools exist

ManagerKinds == {"Database", "Cache"}

\* what create_pool / from_url may raise: the first is a network error
CreateFailKinds(kind) ==
    IF kind = "Database" THEN {"PostgresConnectionError", "InvalidPasswordError"}
    ELSE {"RedisConnectionError", "ValueError"}

\* what SELECT version() / ping may raise: the first is a network error
ProbeFailKinds(kind) ==
    IF kind = "Database" THEN {"TimeoutError", "InsufficientPrivilegeError"}
    ELSE {"RedisConnectionError", "ResponseError"}

\* mutant: connect() does not look at the handle
AlreadyConnectedNever(m) == FALSE

\* if self.pool is not None / if self.client is not None
AlreadyConnected(m) == m.handle # 0

ConnectRunning == op.name = "connect" /\ call.pc \in {"attempt", "probe", "sleep"}
ConnectEnded == op.name = "connect" /\ call.pc \in {"returned", "raised"}

ConnInit ==
    /\ policy = NetworkPolicy
    /\ call = NewCall
    /\ attempts = 0
    /\ delays = <<>>
    /\ outcomes = <<>>
    /\ mgr \in [kind : ManagerKinds, handle : {0}]
    /\ backend = NoBackend
    /\ op = NoOp
    /\ pool = NoPool
    /\ scope = NoScope
    /\ registry = NoRegistry
    /\ caller = NoCaller
    /\ sync = NoSync
    /\ loop = NoLoop
    /\ kv = NoKv
    /\ diag = NoDiag

\* the caller awaits connect(): the decorated method, a new wrapper frame
CallConnect ==
    /\ ~ConnectRunning
    /\ backend.constructed < MaxPools
    /\ call' = NewCall
    /\ attempts' = 0
    /\ delays' = <<>>
    /\ outcomes' = <<>>
    /\ op' = [NoOp EXCEPT !.name = "connect", !.before = mgr.handle,
                          !.built = backend.constructed, !.status = "running"]
    /\ UNCHANGED <<policy, mgr, backend, pool, scope, registry, caller,
                 sync, loop, kv, diag>>

\* connect(): the handle is set: warn and return
ConnectAlready ==
    /\ op.name = "connect" /\ call.pc = "attempt"
    /\ call.attempt < policy.max_retries + 1
    /\ AlreadyConnected(mgr)
    /\ call' = OnSuccess(call, None)
    /\ attempts' = attempts + 1
    /\ outcomes' = Append(outcomes, [ok |-> TRUE, val |-> None, exc |-> NoExc])
    /\ UNCHANGED <<policy, delays, mgr, backend, op, pool, scope, registry, caller,
                 sync, loop, kv, diag>>

\* self.pool = await asyncpg.create_pool(...) / self.client = await from_url(...)
CreatePoolOk ==
    /\ op.name = "connect" /\ call.pc = "attempt"
    /\ call.attempt < policy.max_retries + 1
    /\ ~AlreadyConnected(mgr)
    /\ mgr' = [mgr EXCEPT !.handle = backend.constructed + 1]
    /\ backend' = [backend EXCEPT !.constructed = backend.constructed + 1]
    /\ call' = [call EXCEPT !.pc = "probe"]
    /\ attempts' = attempts + 1
    /\ UNCHANGED <<policy, delays, outcomes, op, pool, scope, registry, caller,
                 sync, loop, kv, diag>>

\* create_pool / from_url raises: nothing is assigned; except: log, raise
CreatePoolFails ==
    /\ op.name = "connect" /\ call.pc = "attempt"
    /\ call.attempt < policy.max_retries + 1
    /\ ~AlreadyConnected(mgr)
    /\ \E k \in CreateFailKinds(mgr.kind), r \in Draws(policy) :
          LET e == Failure(k, attempts + 1)
              c2 == OnFailure(policy, call, e, r)
          IN /\ call' = c2
             /\ delays' = Slept(c2, delays)
             /\ outcomes' = Append(outcomes, [ok |-> FALSE, val |-> None, exc |-> e])
    /\ attempts' = attempts + 1
    /\ UNCHANGED <<policy, mgr, backend, op, pool, scope, registry, caller,
                 sync, loop, kv, diag>>

\* the test of the connection succeeds: connect() returns
ProbeOk ==
    /\ op.name = "connect" /\ call.pc = "probe"
    /\ backend' = [backend EXCEPT !.probed = backend.probed \cup {mgr.handle}]
    /\ call' = OnSuccess(call, None)
    /\ outcomes' = Append(outcomes, [ok |-> TRUE, val |-> None, exc |-> NoExc])
    /\ UNCHANGED <<policy, attempts, delays, mgr, op, pool, scope, registry, caller,
                 sync, loop, kv, diag>>

\* the test of the connection raises: except: log, raise; the handle stays
ProbeFails ==
    /\ op.name = "connect" /\ call.pc = "probe"
    /\ \E k \in ProbeFailKinds(mgr.kind), r \in Draws(policy) :
          LET e == Failure(k, attempts)
              c2 == OnFailure(policy, call, e, r)
          IN /\ call' = c2
             /\ delays' = Slept(c2, delays)
             /\ outcomes' = Append(outcomes, [ok |-> FALSE, val |-> None, exc |-> e])
    /\ UNCHANGED <<policy, attempts, mgr, backend, op, pool, scope, registry, caller,
                 sync, loop, kv, diag>>

Returned(v, n) ==
    [NoOp EXCEPT !.status = "returned", !.result = v, !.calls = n]

Raised(kind, n) ==
    [NoOp EXCEPT !.status = "raised", !.error = [kind |-> kind], !.calls = n]

\* disconnect(): if self.pool is None: return
DisconnectNoop ==
    /\ ~ConnectRunning
    /\ mgr.handle = 0
    /\ op' = [Returned(None, 0) EXCEPT !.name = "disconnect", !.before = mgr.handle]
    /\ UNCHANGED <<policy, call, attempts, delays, outcomes, mgr, backend, pool, scope, registry, caller,
                 sync, loop, kv, diag>>

\* await self.pool.close(); self.pool = None
DisconnectCloses ==
    /\ ~ConnectRunning
    /\ mgr.handle # 0
    /\ backend' = [backend EXCEPT !.closed = backend.closed \cup {mgr.handle}]
    /\ mgr' = [mgr EXCEPT !.handle = 0]
    /\ op' = [Returned(None, 1) EXCEPT !.name = "disconnect", !.before = mgr.handle]
    /\ UNCHANGED <<policy, call, attempts, delays, outcomes, pool, scope, registry, caller,
                 sync, loop, kv, diag>>

\* await self.pool.close() raises: the assignment is not reached
DisconnectCloseFails ==
    /\ ~ConnectRunning
    /\ mgr.handle # 0
    /\ op' = [Raised("ConnectionError", 1) EXCEPT !.name = "disconnect",
                                                  !.before = mgr.handle]
    /\ UNCHANGED <<policy, call, attempts, delays, outcomes, mgr, backend, pool, scope, registry, caller,
                 sync, loop, kv, diag>>

-----------------------------------------------------------------------------
(* The managers' operations. An operation is one call: it reads the        *)
(* handle, makes at most one call to the backend and returns or raises.    *)
(* env is what the backend does: answers, raises, or (for a read) answers  *)
(* with a string that is not JSON. arg is whether the value passed can be  *)
(* serialised by json.dumps.                                               *)

DatabaseOps == {"execute", "fetch", "fetchone", "fetchval", "transaction"}

CacheOps == {"get", "set", "delete", "exists", "get_json", "set_json",
             "increment", "expire", "keys", "flush"}

OpsOf(kind) == IF kind = "Database" THEN DatabaseOps ELSE CacheOps

ArgKinds == {"serializable", "unserializable"}

\* only set_json takes a value of any type
ArgsFor(name) == IF name = "set_json" THEN ArgKinds ELSE {"serializable"}

EnvsFor(name) ==
    IF name \in {"get", "get_json"} THEN {"ok", "error", "garbage"}
    ELSE {"ok", "error"}

\* raise RuntimeError("Database not connected") / ("Cache not connected")
NotConnected == Raised("RuntimeError", 0)

\* the value each cache operation returns from its except clause
CacheDefault(name) ==
    CASE name \in {"get", "get_json"} -> None
      [] name \in {"set", "delete", "exists", "set_json", "expire", "flush"} -> "False"
      [] name = "increment" -> "0"
      [] name = "keys" -> "[]"

\* what the backend's answer becomes
CacheAnswer(name, env) ==
    CASE name = "get" -> IF env = "garbage" THEN "not-json" ELSE "json-text"
      [] name = "increment" -> "n"
      [] name = "keys" -> "[keys]"
      [] OTHER -> "True"

\* mutant: a backend error leaves the operation
CacheCallPropagates(name, connected, env) ==
    IF ~connected THEN NotConnected
    ELSE IF env = "error" THEN Raised("RedisError", 1)
    ELSE Returned(CacheAnswer(name, env), 1)

\* get, set, delete, exists, increment, expire, keys, flush
CacheCall(name, connected, env) ==
    IF ~connected THEN NotConnected
    ELSE IF env = "error" THEN Returned(CacheDefault(name), 1)
    ELSE Returned(CacheAnswer(name, env), 1)

\* get_json: value = await self.get(key); json.loads(value)
GetJson(connected, env) ==
    LET g == CacheCall("get", connected, env)
    IN IF g.status = "raised" THEN g
       ELSE IF g.result = None THEN Returned(None, g.calls)
       ELSE IF g.result = "not-json" THEN Returned(None, g.calls)
       ELSE Returned("json-value", g.calls)

\* mutant: set_json without its except clause
SetJsonPropagates(arg, connected, env) ==
    IF arg = "unserializable" THEN Raised("TypeError", 0)
    ELSE CacheCall("set", connected, env)

\* set_json: json.dumps(value) comes first, inside the try
SetJson(arg, connected, env) ==
    IF arg = "unserializable" THEN Returned("False", 0)
    ELSE CacheCall("set", connected, env)

\* execute, fetch, fetchone, fetchval: async with self.pool.acquire() as conn;
\* transaction: connection = await self.pool.acquire()
DatabaseCall(name, connected, env) ==
    IF ~connected THEN NotConnected
    ELSE IF env = "error" THEN Raised("PostgresError", 1)
    ELSE Returned(IF name = "transaction" THEN "TransactionContext" ELSE "rows", 1)

Operate(kind, name, arg, connected, env) ==
    IF kind = "Database" THEN DatabaseCall(name, connected, env)
    ELSE IF name = "get_json" THEN GetJson(connected, env)
    ELSE IF name = "set_json" THEN SetJson(arg, connected, env)
    ELSE CacheCall(name, connected, env)

\* mutant: an operation that raised drops the handle
HandleDroppedOnError(m, res) ==
    IF res.status = "raised" THEN [m EXCEPT !.handle = 0] ELSE m

\* no operation assigns self.pool / self.client, whatever its outcome
HandleAfter(m, res) == m

\* the caller awaits one operation of the manager
Operation ==
    /\ ~ConnectRunning
    /\ \E name \in OpsOf(mgr.kind) :
          \E arg \in ArgsFor(name), env \in EnvsFor(name) :
             LET res == Operate(mgr.kind, name, arg, AlreadyConnected(mgr), env)
             IN /\ op' = [res EXCEPT !.name = name, !.arg = arg, !.env = env,
                                     !.before = mgr.handle]
                /\ mgr' = HandleAfter(mgr, res)
    /\ UNCHANGED <<policy, call, attempts, delays, outcomes, backend, pool, scope, registry, caller,
                 sync, loop, kv, diag>>

ConnNext ==
    \/ CallConnect
    \/ ConnectAlready
    \/ CreatePoolOk
    \/ CreatePoolFails
    \/ ProbeOk
    \/ ProbeFails
    \/ Wake
    \/ DisconnectNoop
    \/ DisconnectCloses
    \/ DisconnectCloseFails
    \/ Operation

SpecConn == ConnInit /\ [][ConnNext]_vars

-----------------------------------------------------------------------------
(* Database.transaction(): tasks that borrow a connection of the pool and  *)
(* run a block inside TransactionContext (async with await db.transaction()*)
(* as conn). pool[c] is the task connection c is lent to, 0 when it is in  *)
(* the pool. A task's steps are separated where the code awaits.           *)

NumTasks == 2             \* concurrent tasks
PoolMaxSize == 2          \* connections of the pool (max_size)

Tasks == 1 .. NumTasks
Conns == 1 .. PoolMaxSize

\* what the caller's block may raise; CancelledError is a BaseException
BlockExcKinds == {"ValueError", "CancelledError"}

\* mutant: acquire() hands out a connection whether or not it is lent
AnyConns == Conns

\* the connections acquire() can hand out: those in the pool
FreeConns == {c \in Conns : pool[c] = 0}
LentTo(t) == {c \in Conns : pool[c] = t}
LentToOthers(t) == {c \in Conns : pool[c] # 0 /\ pool[c] # t}

IdleScope == [pc |-> "idle", conn |-> 0, trans |-> None, exc |-> NoExc,
              out |-> NoExc, entered |-> FALSE, commits |-> 0, rollbacks |-> 0,
              lentBefore |-> 0, what |-> None, stmts |-> 0]

TxnInit ==
    /\ policy = NetworkPolicy
    /\ call = NewCall
    /\ attempts = 0
    /\ delays = <<>>
    /\ outcomes = <<>>
    /\ mgr = [kind |-> "Database", handle |-> 1]
    /\ backend = [constructed |-> 1, probed |-> {1}, closed |-> {}]
    /\ op = NoOp
    /\ pool = [c \in Conns |-> 0]
    /\ scope = [t \in Tasks |-> IdleScope]
    /\ registry = NoRegistry
    /\ caller = NoCaller
    /\ sync = NoSync
    /\ loop = NoLoop
    /\ kv = NoKv
    /\ diag = NoDiag

\* transaction(): connection = await self.pool.acquire();
\* transaction = connection.transaction(); return TransactionContext(...)
\* acquire() suspends the task while no connection is free
TxnAcquire(t) ==
    /\ scope[t].pc = "idle"
    /\ AlreadyConnected(mgr)
    /\ \E c \in FreeConns :
          /\ pool' = [pool EXCEPT ![c] = t]
          /\ scope' = [scope EXCEPT ![t] =
                  [IdleScope EXCEPT !.pc = "acquired", !.conn = c, !.trans = "New",
                                    !.what = "transaction",
                                    !.lentBefore = Cardinality(LentTo(t))]]
    /\ UNCHANGED <<policy, call, attempts, delays, outcomes, mgr, backend, op, registry, caller,
                 sync, loop, kv, diag>>

\* __aenter__: await self.trans.start(); return self.conn
TxnStart(t) ==
    /\ scope[t].pc = "acquired"
    /\ scope' = [scope EXCEPT ![t].pc = "block", ![t].trans = "Active",
                              ![t].entered = TRUE]
    /\ UNCHANGED <<policy, call, attempts, delays, outcomes, mgr, backend, op, pool, registry, caller,
                 sync, loop, kv, diag>>

\* __aenter__ raises: async with does not call __aexit__
TxnStartFails(t) ==
    /\ scope[t].pc = "acquired"
    /\ scope' = [scope EXCEPT ![t].pc = "done", ![t].trans = "Failed",
                              ![t].out = [kind |-> "PostgresError", from |-> "start"]]
    /\ UNCHANGED <<policy, call, attempts, delays, outcomes, mgr, backend, op, pool, registry, caller,
                 sync, loop, kv, diag>>

\* the block of the async with statement ends without an exception
BlockEnds(t) ==
    /\ scope[t].pc = "block"
    /\ scope' = [scope EXCEPT ![t].pc = "exit"]
    /\ UNCHANGED <<policy, call, attempts, delays, outcomes, mgr, backend, op, pool, registry, caller,
                 sync, loop, kv, diag>>

\* the block raises (or the task is cancelled inside it)
BlockRaises(t) ==
    /\ scope[t].pc = "block"
    /\ \E k \in BlockExcKinds :
          scope' = [scope EXCEPT ![t].pc = "exit",
                                 ![t].exc = [kind |-> k, from |-> "block"]]
    /\ UNCHANGED <<policy, call, attempts, delays, outcomes, mgr, backend, op, pool, registry, caller,
                 sync, loop, kv, diag>>

\* mutant: __aexit__ commits whatever the block did
ExitCommitsAlways(exc) == TRUE

\* mutant: a cancellation of the block is not taken for an exception
ExitCommitsOnCancel(exc) == exc = NoExc \/ exc.kind = "CancelledError"

\* __aexit__: if exc_type is None
ExitCommits(exc) == exc = NoExc

\* await self.trans.commit(): it succeeds, or raises
ExitCommit(t) ==
    /\ scope[t].pc = "exit"
    /\ ExitCommits(scope[t].exc)
    /\ \E ok \in BOOLEAN :
          scope' = [scope EXCEPT
              ![t].pc = "release",
              ![t].commits = scope[t].commits + 1,
              ![t].trans = IF ok THEN "Committed" ELSE "Failed",
              ![t].out = IF ok THEN scope[t].exc
                         ELSE [kind |-> "PostgresError", from |-> "commit"]]
    /\ UNCHANGED <<policy, call, attempts, delays, outcomes, mgr, backend, op, pool, registry, caller,
                 sync, loop, kv, diag>>

\* await self.trans.rollback(): it succeeds, or raises
ExitRollback(t) ==
    /\ scope[t].pc = "exit"
    /\ ~ExitCommits(scope[t].exc)
    /\ \E ok \in BOOLEAN :
          scope' = [scope EXCEPT
              ![t].pc = "release",
              ![t].rollbacks = scope[t].rollbacks + 1,
              ![t].trans = IF ok THEN "RolledBack" ELSE "Failed",
              ![t].out = IF ok THEN scope[t].exc
                         ELSE [kind |-> "PostgresError", from |-> "rollback"]]
    /\ UNCHANGED <<policy, call, attempts, delays, outcomes, mgr, backend, op, pool, registry, caller,
                 sync, loop, kv, diag>>

\* mutant: no finally, the release is skipped when commit/rollback raised
ReleasedUnlessFailed(p, sc) ==
    IF sc.trans = "Failed" THEN p ELSE [p EXCEPT ![sc.conn] = 0]

\* finally: await self.pool.release(self.conn)
Released(p, sc) == [p EXCEPT ![sc.conn] = 0]

\* finally: await self.pool.release(self.conn); then __aexit__ returns None
\* (a pending exception propagates) or the commit/rollback error propagates
ExitRelease(t) ==
    /\ scope[t].pc = "release"
    /\ pool' = Released(pool, scope[t])
    /\ scope' = [scope EXCEPT ![t].pc = "done"]
    /\ UNCHANGED <<policy, call, attempts, delays, outcomes, mgr, backend, op, registry, caller,
                 sync, loop, kv, diag>>

\* the caller is done with the context and may open another scope
TxnForget(t) ==
    /\ scope[t].pc = "done"
    /\ scope' = [scope EXCEPT ![t] = IdleScope]
    /\ UNCHANGED <<policy, call, attempts, delays, outcomes, mgr, backend, op, pool, registry, caller,
                 sync, loop, kv, diag>>

RelationalOps == {"execute", "fetch", "fetchone", "fetchval"}

\* execute/fetch/fetchone/fetchval: async with self.pool.acquire() as conn
\* acquire() suspends the task while no connection is free
OpBorrow(t) ==
    /\ scope[t].pc = "idle"
    /\ AlreadyConnected(mgr)
    /\ \E c \in FreeConns, name \in RelationalOps :
          /\ pool' = [pool EXCEPT ![c] = t]
          /\ scope' = [scope EXCEPT ![t] =
                  [IdleScope EXCEPT !.pc = "stmt", !.conn = c, !.what = name,
                                    !.lentBefore = Cardinality(LentTo(t))]]
    /\ UNCHANGED <<policy, call, attempts, delays, outcomes, mgr, backend, op, registry, caller,
                 sync, loop, kv, diag>>

\* mutant: the operation catches the statement's error and returns
Swallowed(exc) == NoExc

\* no except clause around the statement: its error leaves the operation
Propagated(exc) == exc

\* result = await conn.execute(query, *args) (fetch, fetchrow, fetchval):
\* the statement succeeds, or raises
OpStatement(t) ==
    /\ scope[t].pc = "stmt"
    /\ \E ok \in BOOLEAN :
          LET e == IF ok THEN NoExc
                   ELSE [kind |-> "PostgresError", from |-> "statement"]
          IN scope' = [scope EXCEPT ![t].pc = "oprelease",
                                    ![t].stmts = scope[t].stmts + 1,
                                    ![t].exc = e,
                                    ![t].out = Propagated(e)]
    /\ UNCHANGED <<policy, call, attempts, delays, outcomes, mgr, backend, op, pool, registry, caller,
                 sync, loop, kv, diag>>

\* the end of async with self.pool.acquire(): the connection is released,
\* then the operation returns its result or the statement's error leaves it
OpRelease(t) ==
    /\ scope[t].pc = "oprelease"
    /\ pool' = [pool EXCEPT ![scope[t].conn] = 0]
    /\ scope' = [scope EXCEPT ![t].pc = "done", ![t].conn = 0]
    /\ UNCHANGED <<policy, call, attempts, delays, outcomes, mgr, backend, op, registry, caller,
                 sync, loop, kv, diag>>

\* tasks that issue relational operations on the shared pool
OpsNext ==
    \E t \in Tasks :
        \/ OpBorrow(t)
        \/ OpStatement(t)
        \/ OpRelease(t)
        \/ TxnForget(t)

SpecOps == TxnInit /\ [][OpsNext]_vars

TxnNext ==
    \E t \in Tasks :
        \/ TxnAcquire(t)
        \/ TxnStart(t)
        \/ TxnStartFails(t)
        \/ BlockEnds(t)
        \/ BlockRaises(t)
        \/ ExitCommit(t)
        \/ ExitRollback(t)
        \/ ExitRelease(t)
        \/ TxnForget(t)

SpecTxn == TxnInit /\ [][TxnNext]_vars

\* tasks that open transaction scopes and tasks that issue relational
\* operations, on the same pool
MixNext ==
    \E t \in Tasks :
        \/ TxnAcquire(t)
        \/ TxnStart(t)
        \/ TxnStartFails(t)
        \/ BlockEnds(t)
        \/ BlockRaises(t)
        \/ ExitCommit(t)
        \/ ExitRollback(t)
        \/ ExitRelease(t)
        \/ OpBorrow(t)
        \/ OpStatement(t)
        \/ OpRelease(t)
        \/ TxnForget(t)

SpecMix == TxnInit /\ [][MixNext]_vars

\* a step of task t that waits for nothing but the event loop and the
\* backend's answer
TaskRuns(t) ==
    \/ TxnStart(t)
    \/ TxnStartFails(t)
    \/ BlockEnds(t)
    \/ BlockRaises(t)
    \/ ExitCommit(t)
    \/ ExitRollback(t)
    \/ ExitRelease(t)
    \/ OpStatement(t)
    \/ OpRelease(t)
    \/ TxnForget(t)

\* a borrow of task t is granted
TaskBorrows(t) == TxnAcquire(t) \/ OpBorrow(t)

\* the event loop runs every task that is ready, blocks and backend calls
\* end, and the pool serves its waiters in turn: a task that asks again and
\* again is not passed over for ever while connections come back
FairScheduling ==
    \A t \in Tasks : WF_vars(TaskRuns(t)) /\ SF_vars(TaskBorrows(t))

SpecMixFair == TxnInit /\ [][MixNext]_vars /\ FairScheduling

-----------------------------------------------------------------------------
(* Python values, and the strings json.dumps writes and json.loads reads.  *)
(* A string is the sequence of its lexical units: a digit, a punctuation   *)
(* mark, a word (null, true, false), a quoted string literal, or a run of  *)
(* other characters. White space between units is left out.                *)

\* every value has the same fields, so that any two can be compared
PyNone == [t |-> "NoneType", b |-> FALSE, n |-> 0, s |-> "", v |-> <<>>, d |-> <<>>]
PyBool(b) == [PyNone EXCEPT !.t = "bool", !.b = b]
PyInt(n) == [PyNone EXCEPT !.t = "int", !.n = n]
PyStr(s) == [PyNone EXCEPT !.t = "str", !.s = s]
PyList(items) == [PyNone EXCEPT !.t = "list", !.v = items]
PyTuple(items) == [PyNone EXCEPT !.t = "tuple", !.v = items]
PyDict(pairs) == [PyNone EXCEPT !.t = "dict", !.d = pairs]   \* <<key, value>>, in order
PySet == [PyNone EXCEPT !.t = "set"]

Digit(d) == [k |-> "digit", s |-> "", n |-> d]
Punct(c) == [k |-> "punct", s |-> c, n |-> 0]
Word(w) == [k |-> "word", s |-> w, n |-> 0]
Quoted(s) == [k |-> "string", s |-> s, n |-> 0]
Chars(s) == [k |-> "chars", s |-> s, n |-> 0]

IsTok(toks, tok) == toks # <<>> /\ Head(toks) = tok
IsKind(toks, kind) == toks # <<>> /\ Head(toks).k = kind

\* str(n) for n >= 0: the decimal digits
RECURSIVE Digits(_)
Digits(n) == IF n < 10 THEN <<Digit(n)>> ELSE Digits(n \div 10) \o <<Digit(n % 10)>>

\* the decimal representation of an integer
IntToText(n) == IF n < 0 THEN <<Punct("-")>> \o Digits(0 - n) ELSE Digits(n)

\* the text could not be produced / could not be read
Failed == [ok |-> FALSE]

\* mutant: the closing bracket is left out
DumpsSequenceUnclosed(open, parts) == <<Punct(open)>> \o parts

\* a list or a tuple is written as [item, item, ...]; a dict as {...}
DumpsSequence(open, parts) ==
    <<Punct(open)>> \o parts \o <<Punct(IF open = "[" THEN "]" ELSE "}")>>

RECURSIVE Dumps(_)
RECURSIVE DumpsItems(_)
RECURSIVE DumpsPairs(_)

\* the items of a list, separated by commas
DumpsItems(items) ==
    IF items = <<>> THEN [ok |-> TRUE, text |-> <<>>]
    ELSE LET first == Dumps(Head(items))
             rest == DumpsItems(Tail(items))
         IN IF ~first.ok \/ ~rest.ok THEN Failed
            ELSE [ok |-> TRUE,
                  text |-> IF Tail(items) = <<>> THEN first.text
                           ELSE first.text \o <<Punct(",")>> \o rest.text]

\* the key of a dict: a str is written as it is, an int as its digits in
\* quotes; any other key raises TypeError
DumpsKey(key) ==
    IF key.t = "str" THEN [ok |-> TRUE, text |-> <<Quoted(key.s)>>]
    ELSE IF key.t = "int" THEN [ok |-> TRUE, text |-> <<Quoted(ToString(key.n))>>]
    ELSE Failed

\* "key": value, separated by commas
DumpsPairs(pairs) ==
    IF pairs = <<>> THEN [ok |-> TRUE, text |-> <<>>]
    ELSE LET key == DumpsKey(Head(pairs)[1])
             val == Dumps(Head(pairs)[2])
             rest == DumpsPairs(Tail(pairs))
         IN IF ~key.ok \/ ~val.ok \/ ~rest.ok THEN Failed
            ELSE [ok |-> TRUE,
                  text |-> key.text \o <<Punct(":")>> \o val.text \o
                           (IF Tail(pairs) = <<>> THEN <<>>
                            ELSE <<Punct(",")>> \o rest.text)]

\* json.dumps(value): the text, or TypeError for a value it cannot serialise
Dumps(value) ==
    CASE value.t = "NoneType" -> [ok |-> TRUE, text |-> <<Word("null")>>]
      [] value.t = "bool" ->
            [ok |-> TRUE, text |-> <<Word(IF value.b THEN "true" ELSE "false")>>]
      [] value.t = "int" -> [ok |-> TRUE, text |-> IntToText(value.n)]
      [] value.t = "str" -> [ok |-> TRUE, text |-> <<Quoted(value.s)>>]
      [] value.t \in {"list", "tuple"} ->
            LET items == DumpsItems(value.v)
            IN IF items.ok THEN [ok |-> TRUE, text |-> DumpsSequence("[", items.text)]
               ELSE Failed
      [] value.t = "dict" ->
            LET pairs == DumpsPairs(value.d)
            IN IF pairs.ok THEN [ok |-> TRUE, text |-> DumpsSequence("{", pairs.text)]
               ELSE Failed
      [] OTHER -> Failed

\* int(digits), most significant digit first
RECURSIVE DigitsValue(_, _)
DigitsValue(toks, acc) ==
    IF IsKind(toks, "digit")
    THEN DigitsValue(Tail(toks), 10 * acc + Head(toks).n)
    ELSE [v |-> acc, rest |-> toks]

\* a JSON number (integers only): -? (0 | [1-9][0-9]*)
LoadsNumber(toks) ==
    LET neg == IsTok(toks, Punct("-"))
        ds == IF neg THEN Tail(toks) ELSE toks
    IN IF ~IsKind(ds, "digit") THEN Failed
       ELSE IF Head(ds).n = 0
       THEN [ok |-> TRUE, v |-> PyInt(0), rest |-> Tail(ds)]
       ELSE LET r == DigitsValue(ds, 0)
            IN [ok |-> TRUE, v |-> PyInt(IF neg THEN 0 - r.v ELSE r.v), rest |-> r.rest]

\* d[key] = value: a key that is already there keeps its place
RECURSIVE SetItem(_, _, _)
SetItem(pairs, key, value) ==
    IF pairs = <<>> THEN <<<<key, value>>>>
    ELSE IF Head(pairs)[1] = key THEN <<<<key, value>>>> \o Tail(pairs)
    ELSE <<Head(pairs)>> \o SetItem(Tail(pairs), key, value)

RECURSIVE LoadsValue(_)
RECURSIVE LoadsItems(_, _)
RECURSIVE LoadsMembers(_, _)

\* value (, value)* ]
LoadsItems(toks, acc) ==
    LET item == LoadsValue(toks)
    IN IF ~item.ok THEN Failed
       ELSE IF IsTok(item.rest, Punct(","))
       THEN LoadsItems(Tail(item.rest), Append(acc, item.v))
       ELSE IF IsTok(item.rest, Punct("]"))
       THEN [ok |-> TRUE, v |-> PyList(Append(acc, item.v)), rest |-> Tail(item.rest)]
       ELSE Failed

\* "key" : value (, "key" : value)* }
LoadsMembers(toks, acc) ==
    IF ~IsKind(toks, "string") \/ ~IsTok(Tail(toks), Punct(":")) THEN Failed
    ELSE LET val == LoadsValue(Tail(Tail(toks)))
             pairs == SetItem(acc, PyStr(Head(toks).s), val.v)
         IN IF ~val.ok THEN Failed
            ELSE IF IsTok(val.rest, Punct(","))
            THEN LoadsMembers(Tail(val.rest), pairs)
            ELSE IF IsTok(val.rest, Punct("}"))
            THEN [ok |-> TRUE, v |-> PyDict(pairs), rest |-> Tail(val.rest)]
            ELSE Failed

\* one JSON value at the head of the text, and the text after it
LoadsValue(toks) ==
    IF toks = <<>> THEN Failed
    ELSE LET tok == Head(toks)
         IN CASE tok = Word("null") -> [ok |-> TRUE, v |-> PyNone, rest |-> Tail(toks)]
              [] tok = Word("true") ->
                    [ok |-> TRUE, v |-> PyBool(TRUE), rest |-> Tail(toks)]
              [] tok = Word("false") ->
                    [ok |-> TRUE, v |-> PyBool(FALSE), rest |-> Tail(toks)]
              [] tok.k = "string" ->
                    [ok |-> TRUE, v |-> PyStr(tok.s), rest |-> Tail(toks)]
              [] tok.k = "digit" \/ tok = Punct("-") -> LoadsNumber(toks)
              [] tok = Punct("[") ->
                    IF IsTok(Tail(toks), Punct("]"))
                    THEN [ok |-> TRUE, v |-> PyList(<<>>), rest |-> Tail(Tail(toks))]
                    ELSE LoadsItems(Tail(toks), <<>>)
              [] tok = Punct("{") ->
                    IF IsTok(Tail(toks), Punct("}"))
                    THEN [ok |-> TRUE, v |-> PyDict(<<>>), rest |-> Tail(Tail(toks))]
                    ELSE LoadsMembers(Tail(toks), <<>>)
              [] OTHER -> Failed

\* json.loads(text): the value, or JSONDecodeError
Loads(text) ==
    LET r == LoadsValue(text)
    IN IF r.ok /\ r.rest = <<>> THEN [ok |-> TRUE, v |-> r.v] ELSE Failed

-----------------------------------------------------------------------------
(* A connected Cache and the Redis keyspace behind it. Each call reaches   *)
(* the backend, which answers or raises (connection lost, timeout).        *)

MaxCounter == 12          \* INCRBY is not issued beyond this counter value

Keys == {"test:json", "test:counter"}

Amounts == {3, 5}

\* the str values passed to set: "0" and "Hello, Redis!"
PlainStrings == {<<Digit(0)>>, <<Chars("Hello, Redis!")>>}

\* test_json of test_connectivity.py
TestJson ==
    PyDict(<< <<PyStr("message"), PyStr("Hello")>>, <<PyStr("number"), PyInt(42)>>,
              <<PyStr("nested"), PyDict(<< <<PyStr("key"), PyStr("value")>> >>)>> >>)

Atoms == {PyNone, PyBool(TRUE), PyInt(42), PyStr("Hello")}

\* values made of None, bool, int, str, list and dict with str keys
JsonValues ==
    Atoms \cup {PyList(<<>>), PyDict(<<>>), TestJson,
                PyList(<<TestJson, PyList(<<PyInt(0 - 105), PyBool(FALSE)>>)>>)}
          \cup {PyList(<<a, PyInt(7)>>) : a \in {PyNone, PyStr("Hello")}}
          \cup {PyDict(<< <<PyStr("key"), a>> >>) : a \in {PyBool(TRUE), PyInt(42)}}

\* values json.dumps writes but json.loads does not give back (a tuple, an
\* int key), and values json.dumps refuses (a set)
OtherValues ==
    {PyTuple(<<PyInt(42)>>), PyDict(<< <<PyInt(1), PyNone>> >>), PySet, PyList(<<PySet>>)}

Absent == [present |-> FALSE, text |-> <<>>, json |-> FALSE, v |-> PyNone]

\* a key holding text; json/v (observed): text was written by set_json(k, v)
Holding(text, json, v) == [present |-> TRUE, text |-> text, json |-> json, v |-> v]

NoLast == [name |-> None, key |-> None, ok |-> TRUE, amount |-> 0, before |-> Absent,
           isNone |-> FALSE, text |-> <<>>, py |-> PyNone, flag |-> FALSE, n |-> 0]

\* Redis reads a stored string as a 64-bit integer: -?[1-9][0-9]* or 0
ParseInteger(text) ==
    LET neg == IsTok(text, Punct("-"))
        ds == IF neg THEN Tail(text) ELSE text
        r == DigitsValue(ds, 0)
    IN IF ~IsKind(ds, "digit") \/ r.rest # <<>> THEN Failed
       ELSE IF Head(ds).n = 0 /\ (neg \/ Len(ds) > 1) THEN Failed
       ELSE [ok |-> TRUE, n |-> IF neg THEN 0 - r.v ELSE r.v]

\* mutant: INCRBY starts from zero whatever the key holds
IncrbyFromZero(entry, amount) == [ok |-> TRUE, n |-> amount]

\* INCRBY key amount: an absent key counts as 0; a value that is not an
\* integer is an error
Incrby(entry, amount) ==
    IF ~entry.present THEN [ok |-> TRUE, n |-> amount]
    ELSE LET was == ParseInteger(entry.text)
         IN IF was.ok THEN [ok |-> TRUE, n |-> was.n + amount] ELSE Failed

KvInit ==
    /\ policy = NetworkPolicy
    /\ call = NewCall
    /\ attempts = 0
    /\ delays = <<>>
    /\ outcomes = <<>>
    /\ mgr = [kind |-> "Cache", handle |-> 1]
    /\ backend = [constructed |-> 1, probed |-> {1}, closed |-> {}]
    /\ op = NoOp
    /\ pool = NoPool
    /\ scope = NoScope
    /\ registry = NoRegistry
    /\ caller = NoCaller
    /\ sync = NoSync
    /\ loop = NoLoop
    /\ kv = [store |-> [key \in Keys |-> Absent], last |-> NoLast]
    /\ diag = NoDiag

Called(name, key, ok) == [NoLast EXCEPT !.name = name, !.key = key, !.ok = ok]

\* set(key, value): await self.client.set(key, value); return True
\* except Exception: return False
KvSet ==
    /\ AlreadyConnected(mgr)
    /\ \E key \in Keys, value \in PlainStrings, ok \in BOOLEAN :
          kv' = [store |-> IF ok THEN [kv.store EXCEPT ![key] = Holding(value, FALSE, PyNone)]
                           ELSE kv.store,
                 last |-> [Called("set", key, ok) EXCEPT !.flag = ok]]
    /\ UNCHANGED <<policy, call, attempts, delays, outcomes, mgr, backend, op, pool, scope,
                   registry, caller, sync, loop, diag>>

\* get(key): return await self.client.get(key); except Exception: return None
CacheGet(store, key, ok) ==
    IF ok /\ store[key].present THEN [isNone |-> FALSE, text |-> store[key].text]
    ELSE [isNone |-> TRUE, text |-> <<>>]

KvGet ==
    /\ AlreadyConnected(mgr)
    /\ \E key \in Keys, ok \in BOOLEAN :
          LET got == CacheGet(kv.store, key, ok)
          IN kv' = [kv EXCEPT !.last = [Called("get", key, ok) EXCEPT
                                           !.isNone = got.isNone, !.text = got.text]]
    /\ UNCHANGED <<policy, call, attempts, delays, outcomes, mgr, backend, op, pool, scope,
                   registry, caller, sync, loop, diag>>

\* set_json(key, value): json_value = json.dumps(value);
\* return await self.set(key, json_value, ttl)
\* except (TypeError, ValueError): return False
KvSetJson ==
    /\ AlreadyConnected(mgr)
    /\ \E key \in Keys, value \in JsonValues \cup OtherValues, ok \in BOOLEAN :
          LET json_value == Dumps(value)
              written == json_value.ok /\ ok
          IN kv' = [store |-> IF written
                              THEN [kv.store EXCEPT
                                       ![key] = Holding(json_value.text, TRUE, value)]
                              ELSE kv.store,
                    last |-> [Called("set_json", key, ok) EXCEPT !.flag = written]]
    /\ UNCHANGED <<policy, call, attempts, delays, outcomes, mgr, backend, op, pool, scope,
                   registry, caller, sync, loop, diag>>

\* get_json(key): value = await self.get(key); if value is None: return None
\* return json.loads(value); except json.JSONDecodeError: return None
GetJsonValue(got) ==
    IF got.isNone THEN PyNone
    ELSE LET parsed == Loads(got.text)
         IN IF parsed.ok THEN parsed.v ELSE PyNone

KvGetJson ==
    /\ AlreadyConnected(mgr)
    /\ \E key \in Keys, ok \in BOOLEAN :
          kv' = [kv EXCEPT !.last = [Called("get_json", key, ok) EXCEPT
                                        !.py = GetJsonValue(CacheGet(kv.store, key, ok))]]
    /\ UNCHANGED <<policy, call, attempts, delays, outcomes, mgr, backend, op, pool, scope,
                   registry, caller, sync, loop, diag>>

\* increment(key, amount): return await self.client.incrby(key, amount)
\* except Exception: return 0
KvIncrement ==
    /\ AlreadyConnected(mgr)
    /\ \E key \in Keys, amount \in Amounts, ok \in BOOLEAN :
          LET r == Incrby(kv.store[key], amount)
              done == ok /\ r.ok
          IN /\ r.ok => r.n <= MaxCounter
             /\ kv' = [store |-> IF done
                                 THEN [kv.store EXCEPT
                                          ![key] = Holding(IntToText(r.n), FALSE, PyNone)]
                                 ELSE kv.store,
                       last |-> [Called("increment", key, ok) EXCEPT
                                    !.amount = amount, !.before = kv.store[key],
                                    !.n = IF done THEN r.n ELSE 0]]
    /\ UNCHANGED <<policy, call, attempts, delays, outcomes, mgr, backend, op, pool, scope,
                   registry, caller, sync, loop, diag>>

\* delete(key): result = await self.client.delete(key); return result > 0
\* except Exception: return False
KvDelete ==
    /\ AlreadyConnected(mgr)
    /\ \E key \in Keys, ok \in BOOLEAN :
          kv' = [store |-> IF ok THEN [kv.store EXCEPT ![key] = Absent] ELSE kv.store,
                 last |-> [Called("delete", key, ok) EXCEPT
                              !.flag = ok /\ kv.store[key].present]]
    /\ UNCHANGED <<policy, call, attempts, delays, outcomes, mgr, backend, op, pool, scope,
                   registry, caller, sync, loop, diag>>

KvNext == KvSet \/ KvGet \/ KvSetJson \/ KvGetJson \/ KvIncrement \/ KvDelete

SpecKv == KvInit /\ [][KvNext]_vars

-----------------------------------------------------------------------------
(* scripts/test_connectivity.py: main() runs test_postgres(), then         *)
(* test_redis(), and returns the exit code. A step is one awaited call     *)
(* together with the test the script makes of its result; the backend      *)
(* answers each call or fails it.                                          *)

\* the awaited calls of test_postgres between init_database and the finally
PostgresSteps == <<"fetch_extensions", "fetch_tables", "insert", "fetch_back", "delete">>

\* the awaited calls of test_redis between init_cache and the finally
RedisSteps == <<"set", "get", "exists", "set_json", "get_json", "set_counter",
                "increment", "delete_key", "delete_json", "delete_counter">>

DiagKeys == {"test:connectivity", "test:json", "test:counter"}

\* test_value = "Hello, Redis!"
TestValue == <<Chars("Hello, Redis!")>>

\* stored: whether the module globals _db and _cache hold an instance;
\* handle: whether the pool/client of that instance is set; torn: the
\* teardown calls that returned
NewDiag == [pc |-> "test_postgres", step |-> 0, postgres_ok |-> FALSE,
            redis_ok |-> FALSE, store |-> [key \in DiagKeys |-> Absent],
            failed |-> {}, exit |-> -1,
            stored |-> [_db |-> FALSE, _cache |-> FALSE],
            handle |-> [_db |-> FALSE, _cache |-> FALSE],
            torn |-> {}]

\* how init_database() / init_cache() may end: connected, or connect() gave
\* up with the pool/client never constructed, or with it constructed and
\* the probe failed (the handle stays assigned)
InitAnswers == {"connected", "create_fails", "probe_fails"}

DiagInit ==
    /\ policy = NetworkPolicy
    /\ call = NewCall
    /\ attempts = 0
    /\ delays = <<>>
    /\ outcomes = <<>>
    /\ mgr = NoManager
    /\ backend = NoBackend
    /\ op = NoOp
    /\ pool = NoPool
    /\ scope = NoScope
    /\ registry = NoRegistry
    /\ caller = NoCaller
    /\ sync = NoSync
    /\ loop = NoLoop
    /\ kv = NoKv
    /\ diag = NewDiag

\* db = await init_database(): get_database() stores the instance, then
\* connect() returns, or raises into except Exception
DiagInitDatabase ==
    /\ diag.pc = "test_postgres"
    /\ \E answer \in InitAnswers :
          diag' = IF answer = "connected"
                  THEN [diag EXCEPT !.pc = "postgres", !.step = 1,
                                    !.stored._db = TRUE, !.handle._db = TRUE]
                  ELSE [diag EXCEPT !.pc = "close_database",
                                    !.stored._db = TRUE,
                                    !.handle._db = (answer = "probe_fails"),
                                    !.failed = diag.failed \cup {"init_database"}]
    /\ UNCHANGED <<policy, call, attempts, delays, outcomes, mgr, backend, op, pool, scope,
                   registry, caller, sync, loop, kv>>

\* a Database call raises: except Exception: return False. Otherwise the
\* script goes on, also when an extension or a table is missing or the row
\* read back is None (it logs a warning, or nothing); after the last call:
\* return True
DiagPostgresStep ==
    /\ diag.pc = "postgres"
    /\ \E answer \in {"expected", "unexpected", "raises"} :
          LET name == PostgresSteps[diag.step]
              last == diag.step = Len(PostgresSteps)
          IN /\ answer = "unexpected" => name \in {"fetch_extensions", "fetch_tables", "fetch_back"}
             /\ diag' =
                  IF answer = "raises"
                  THEN [diag EXCEPT !.pc = "close_database",
                                    !.failed = diag.failed \cup {name}]
                  ELSE [diag EXCEPT
                           !.pc = IF last THEN "close_database" ELSE "postgres",
                           !.step = IF last THEN 0 ELSE diag.step + 1,
                           !.postgres_ok = last,
                           !.failed = IF answer = "unexpected"
                                      THEN diag.failed \cup {name} ELSE diag.failed]
    /\ UNCHANGED <<policy, call, attempts, delays, outcomes, mgr, backend, op, pool, scope,
                   registry, caller, sync, loop, kv>>

\* if postgres_ok and redis_ok: return 0 else: return 1
ExitCode(postgres_ok, redis_ok) == IF postgres_ok /\ redis_ok THEN 0 ELSE 1

\* the global a teardown call works on
SlotOf(teardown) == IF teardown = "close_database" THEN "_db" ELSE "_cache"

\* close_database() / close_cache(): if the global is not None, disconnect()
\* (which closes the pool/client if the handle is set) and then clear the
\* global; when close() raises, disconnect() and the teardown raise with
\* the handle and the global as they were
Teardown(d, slot, ok) ==
    IF d.stored[slot] /\ d.handle[slot] /\ ~ok
    THEN d
    ELSE [d EXCEPT !.stored[slot] = FALSE,
                   !.handle[slot] = d.handle[slot] /\ ~d.stored[slot],
                   !.torn = d.torn \cup {d.pc}]

\* finally: await close_database() / close_cache(): when it raises the
\* exception leaves the test and main(), and the interpreter exits with 1
DiagClose ==
    /\ diag.pc \in {"close_database", "close_cache"}
    /\ \E ok \in BOOLEAN :
          LET d == Teardown(diag, SlotOf(diag.pc), ok)
          IN diag' = IF diag.pc \notin d.torn
                     THEN [d EXCEPT !.pc = "exited", !.exit = 1,
                                    !.failed = diag.failed \cup {diag.pc}]
                     ELSE IF diag.pc = "close_database"
                     THEN [d EXCEPT !.pc = "test_redis"]
                     ELSE [d EXCEPT !.pc = "exited",
                                    !.exit = ExitCode(diag.postgres_ok, diag.redis_ok)]
    /\ UNCHANGED <<policy, call, attempts, delays, outcomes, mgr, backend, op, pool, scope,
                   registry, caller, sync, loop, kv>>

\* cache = await init_cache(): get_cache() stores the instance, then
\* connect() returns, or raises into except Exception
DiagInitCache ==
    /\ diag.pc = "test_redis"
    /\ \E answer \in InitAnswers :
          diag' = IF answer = "connected"
                  THEN [diag EXCEPT !.pc = "redis", !.step = 1,
                                    !.stored._cache = TRUE, !.handle._cache = TRUE]
                  ELSE [diag EXCEPT !.pc = "close_cache",
                                    !.stored._cache = TRUE,
                                    !.handle._cache = (answer = "probe_fails"),
                                    !.failed = diag.failed \cup {"init_cache"}]
    /\ UNCHANGED <<policy, call, attempts, delays, outcomes, mgr, backend, op, pool, scope,
                   registry, caller, sync, loop, kv>>

\* what the call of a step leaves in the keyspace
RedisStepStore(name, store, ok) ==
    IF ~ok THEN store
    ELSE CASE name = "set" ->
                [store EXCEPT !["test:connectivity"] = Holding(TestValue, FALSE, PyNone)]
           [] name = "set_json" ->
                [store EXCEPT !["test:json"] = Holding(Dumps(TestJson).text, TRUE, TestJson)]
           [] name = "set_counter" ->
                [store EXCEPT !["test:counter"] = Holding(<<Digit(0)>>, FALSE, PyNone)]
           [] name = "increment" ->
                LET r == Incrby(store["test:counter"], 5)
                IN IF r.ok
                   THEN [store EXCEPT !["test:counter"] = Holding(IntToText(r.n), FALSE, PyNone)]
                   ELSE store
           [] name = "delete_key" -> [store EXCEPT !["test:connectivity"] = Absent]
           [] name = "delete_json" -> [store EXCEPT !["test:json"] = Absent]
           [] name = "delete_counter" -> [store EXCEPT !["test:counter"] = Absent]
           [] OTHER -> store

\* whether the step did what the sequence expects of it: the call was
\* carried out and, for a compare step, the value read is the value written
RedisStepSucceeded(name, store, ok) ==
    CASE name = "get" ->
            LET retrieved == CacheGet(store, "test:connectivity", ok)
            IN ~retrieved.isNone /\ retrieved.text = TestValue
      [] name = "exists" -> ok /\ store["test:connectivity"].present
      [] name = "get_json" ->
            GetJsonValue(CacheGet(store, "test:json", ok)) = TestJson
      [] name = "increment" ->
            LET r == Incrby(store["test:counter"], 5)
            IN ok /\ r.ok /\ r.n = 5
      [] OTHER -> ok

\* one call of test_redis: no Cache operation raises, the script does not
\* test what set, set_json and delete return, and a failed comparison is
\* logged (or passed over); after the last call: return True
DiagRedisStep ==
    /\ diag.pc = "redis"
    /\ \E ok \in BOOLEAN :
          LET name == RedisSteps[diag.step]
              last == diag.step = Len(RedisSteps)
          IN diag' = [diag EXCEPT
                 !.pc = IF last THEN "close_cache" ELSE "redis",
                 !.step = IF last THEN 0 ELSE diag.step + 1,
                 !.redis_ok = last,
                 !.store = RedisStepStore(name, diag.store, ok),
                 !.failed = IF RedisStepSucceeded(name, diag.store, ok)
                            THEN diag.failed ELSE diag.failed \cup {name}]
    /\ UNCHANGED <<policy, call, attempts, delays, outcomes, mgr, backend, op, pool, scope,
                   registry, caller, sync, loop, kv>>

DiagNext ==
    \/ DiagInitDatabase
    \/ DiagPostgresStep
    \/ DiagClose
    \/ DiagInitCache
    \/ DiagRedisStep

SpecDiag == DiagInit /\ [][DiagNext]_vars

-----------------------------------------------------------------------------
(* Tasks of one event loop. A task calls a function decorated with         *)
(* retry_with_backoff (a coroutine function gets async_wrapper, any other  *)
(* function sync_wrapper) or issues a relational operation on the pool.    *)
(* await asyncio.sleep(delay) suspends the task; time.sleep(delay) holds   *)
(* the thread of the event loop until it returns.                          *)

IdleLoop == [pc |-> "idle", wrapper |-> None, attempt |-> 0, status |-> None]

\* if asyncio.iscoroutinefunction(func): return async_wrapper
\* else: return sync_wrapper
WrapperOf(coroutinefunction) == IF coroutinefunction THEN "async" ELSE "sync"

\* the thread of the event loop is inside time.sleep called by another task
ThreadHeld(t) ==
    \E u \in Tasks \ {t} : loop[u].pc = "sleep" /\ loop[u].wrapper = "sync"

\* the outcome of one invocation of func inside the wrapper's loop
LoopAttempt(l, ok) ==
    IF ok THEN [l EXCEPT !.pc = "done", !.status = "returned"]
    ELSE IF Exhausted(NetworkPolicy, l.attempt)
    THEN [l EXCEPT !.pc = "done", !.status = "raised"]
    ELSE [l EXCEPT !.pc = "sleep"]

LoopInit ==
    /\ policy = NetworkPolicy
    /\ call = NewCall
    /\ attempts = 0
    /\ delays = <<>>
    /\ outcomes = <<>>
    /\ mgr = [kind |-> "Database", handle |-> 1]
    /\ backend = [constructed |-> 1, probed |-> {1}, closed |-> {}]
    /\ op = NoOp
    /\ pool = [c \in Conns |-> 0]
    /\ scope = [t \in Tasks |-> IdleScope]
    /\ registry = NoRegistry
    /\ caller = NoCaller
    /\ sync = NoSync
    /\ loop = [t \in Tasks |-> IdleLoop]
    /\ kv = NoKv
    /\ diag = NoDiag

\* the task calls the decorated function: the first invocation of func
\* returns, or raises a network error
LoopCall(t) ==
    /\ ~ThreadHeld(t)
    /\ loop[t].pc = "idle"
    /\ scope[t].pc = "idle"
    /\ \E coroutinefunction \in BOOLEAN, ok \in BOOLEAN :
          loop' = [loop EXCEPT ![t] =
              LoopAttempt([IdleLoop EXCEPT !.wrapper = WrapperOf(coroutinefunction)], ok)]
    /\ UNCHANGED <<policy, call, attempts, delays, outcomes, mgr, backend, op, pool, scope,
                   registry, caller, sync, kv, diag>>

\* the sleep returns; the next iteration invokes func again
LoopWake(t) ==
    /\ ~ThreadHeld(t)
    /\ loop[t].pc = "sleep"
    /\ \E ok \in BOOLEAN :
          loop' = [loop EXCEPT ![t] =
              LoopAttempt([loop[t] EXCEPT !.attempt = loop[t].attempt + 1], ok)]
    /\ UNCHANGED <<policy, call, attempts, delays, outcomes, mgr, backend, op, pool, scope,
                   registry, caller, sync, kv, diag>>

\* the task drops the outcome of the decorated call
LoopForget(t) ==
    /\ ~ThreadHeld(t)
    /\ loop[t].pc = "done"
    /\ loop' = [loop EXCEPT ![t] = IdleLoop]
    /\ UNCHANGED <<policy, call, attempts, delays, outcomes, mgr, backend, op, pool, scope,
                   registry, caller, sync, kv, diag>>

\* a task that is not inside a decorated call issues a relational operation
LoopBorrow(t) == ~ThreadHeld(t) /\ loop[t].pc = "idle" /\ OpBorrow(t)

LoopStatement(t) == ~ThreadHeld(t) /\ loop[t].pc = "idle" /\ OpStatement(t)

LoopRelease(t) == ~ThreadHeld(t) /\ loop[t].pc = "idle" /\ OpRelease(t)

LoopOpForget(t) == ~ThreadHeld(t) /\ loop[t].pc = "idle" /\ TxnForget(t)

LoopNext ==
    \E t \in Tasks :
        \/ LoopCall(t)
        \/ LoopWake(t)
        \/ LoopForget(t)
        \/ LoopBorrow(t)
        \/ LoopStatement(t)
        \/ LoopRelease(t)
        \/ LoopOpForget(t)

SpecLoop == LoopInit /\ [][LoopNext]_vars

-----------------------------------------------------------------------------
(* The global registry: get_database / init_database / close_database and  *)
(* get_cache / init_cache / close_cache, called by the tasks of one event  *)
(* loop. A step runs a task from one suspension point to the next.         *)

MaxInstances == 2         \* no manager is constructed once MaxInstances exist

Instances == 1 .. MaxInstances

\* two tasks of the event loop call the registry's functions
Callers == {"main", "worker"}

IdleCaller == [pc |-> "idle", fn |-> None, db |-> 0, attempt |-> 0, pool |-> 0,
               path |-> None, status |-> None, error |-> None, after |-> 0]

\* _db: Optional[Database] = None, and nothing constructed yet
EmptyRegistry(kind) ==
    [kind |-> kind, slot |-> 0, made |-> 0, handle |-> [i \in Instances |-> 0],
     pools |-> 0, closed |-> {}, torn |-> FALSE]

RegInit ==
    /\ policy = NetworkPolicy
    /\ call = NewCall
    /\ attempts = 0
    /\ delays = <<>>
    /\ outcomes = <<>>
    /\ mgr = NoManager
    /\ backend = NoBackend
    /\ op = NoOp
    /\ pool = NoPool
    /\ scope = NoScope
    /\ registry \in {EmptyRegistry(kind) : kind \in ManagerKinds}
    /\ caller = [t \in Callers |-> IdleCaller]
    /\ sync = NoSync
    /\ loop = NoLoop
    /\ kv = NoKv
    /\ diag = NoDiag

\* mutant: get_database() constructs a manager on every call
GetDatabaseAlwaysNew(reg) ==
    [reg EXCEPT !.slot = reg.made + 1, !.made = reg.made + 1]

\* get_database(): if _db is None: _db = Database(); return _db
GetDatabase(reg) ==
    IF reg.slot = 0
    THEN [reg EXCEPT !.slot = reg.made + 1, !.made = reg.made + 1]
    ELSE reg

\* the manager object with identity i
Instance(reg, i) == [kind |-> reg.kind, handle |-> reg.handle[i]]

\* the call of task t ended: return db / an exception leaves init_* or close_*
Ended(c, status, error, reg) ==
    [c EXCEPT !.pc = "done", !.status = status, !.error = error, !.pool = 0,
              !.attempt = 0, !.after = reg.slot]

\* connect()'s body raised e inside the wrapper of retry_on_network_error
ConnectFailed(c, e, reg) ==
    IF ~Catches(NetworkPolicy.exceptions, [kind |-> e])
    THEN Ended(c, "raised", e, reg)
    ELSE IF Exhausted(NetworkPolicy, c.attempt)
    THEN Ended(c, "raised", "RetryError", reg)
    ELSE [c EXCEPT !.pc = "sleeping"]

\* mutant: connect() builds a pool whether or not the manager has one
ConnectBodyAlwaysCreates(c, reg) == [c EXCEPT !.pc = "creating"]

\* connect()'s body from its first line: returns at once when the manager
\* has a handle, otherwise awaits create_pool / from_url
ConnectBody(c, reg) ==
    IF AlreadyConnected(Instance(reg, c.db))
    THEN Ended(c, "returned", None, reg)
    ELSE [c EXCEPT !.pc = "creating"]

\* init_database(): db = get_database(); await db.connect(); return db
RegInitCall(t) ==
    /\ caller[t].pc = "idle"
    /\ LET reg == GetDatabase(registry)
           c == [caller[t] EXCEPT !.fn = "init", !.db = reg.slot,
                     !.path = IF registry.slot = 0 THEN "fresh"
                              ELSE IF AlreadyConnected(Instance(registry, registry.slot))
                              THEN "stored" ELSE "joined"]
       IN /\ reg.made <= MaxInstances
          /\ registry' = reg
          /\ caller' = [caller EXCEPT ![t] = ConnectBody(c, reg)]
    /\ UNCHANGED <<policy, call, attempts, delays, outcomes, mgr, backend, op, pool, scope,
                 sync, loop, kv, diag>>

\* self.pool = await asyncpg.create_pool(...) returned; the probe is awaited
RegCreateOk(t) ==
    /\ caller[t].pc = "creating"
    /\ registry.pools < MaxPools
    /\ registry' = [registry EXCEPT !.pools = registry.pools + 1,
                                    !.handle[caller[t].db] = registry.pools + 1]
    /\ caller' = [caller EXCEPT ![t].pc = "probing"]
    /\ UNCHANGED <<policy, call, attempts, delays, outcomes, mgr, backend, op, pool, scope,
                 sync, loop, kv, diag>>

\* create_pool / from_url raised
RegCreateFails(t) ==
    /\ caller[t].pc = "creating"
    /\ \E e \in CreateFailKinds(registry.kind) :
          caller' = [caller EXCEPT ![t] = ConnectFailed(caller[t], e, registry)]
    /\ UNCHANGED <<policy, call, attempts, delays, outcomes, mgr, backend, op, pool, scope, registry,
                 sync, loop, kv, diag>>

\* SELECT version() returned: connect() and init_database() return.
\* ping() returned: self.client is read again for info(), awaited in turn
RegProbeOk(t) ==
    /\ caller[t].pc = "probing"
    /\ caller' = [caller EXCEPT ![t] =
          IF registry.kind = "Database"
          THEN Ended(caller[t], "returned", None, registry)
          ELSE IF AlreadyConnected(Instance(registry, caller[t].db))
          THEN [caller[t] EXCEPT !.pc = "info"]
          ELSE ConnectFailed(caller[t], "AttributeError", registry)]
    /\ UNCHANGED <<policy, call, attempts, delays, outcomes, mgr, backend, op, pool, scope, registry,
                 sync, loop, kv, diag>>

\* info() returned: Cache.connect() and init_cache() return
RegInfoOk(t) ==
    /\ caller[t].pc = "info"
    /\ caller' = [caller EXCEPT ![t] = Ended(caller[t], "returned", None, registry)]
    /\ UNCHANGED <<policy, call, attempts, delays, outcomes, mgr, backend, op, pool, scope, registry,
                 sync, loop, kv, diag>>

\* the probe raised: except Exception: log; raise (the handle stays set)
RegProbeFails(t) ==
    /\ caller[t].pc \in {"probing", "info"}
    /\ \E e \in ProbeFailKinds(registry.kind) :
          caller' = [caller EXCEPT ![t] = ConnectFailed(caller[t], e, registry)]
    /\ UNCHANGED <<policy, call, attempts, delays, outcomes, mgr, backend, op, pool, scope, registry,
                 sync, loop, kv, diag>>

\* asyncio.sleep(delay) returned: the next attempt runs connect()'s body
RegWake(t) ==
    /\ caller[t].pc = "sleeping"
    /\ caller' = [caller EXCEPT ![t] =
          ConnectBody([caller[t] EXCEPT !.attempt = caller[t].attempt + 1], registry)]
    /\ UNCHANGED <<policy, call, attempts, delays, outcomes, mgr, backend, op, pool, scope, registry,
                 sync, loop, kv, diag>>

\* close_database() with _db None: nothing to do
RegCloseEmpty(t) ==
    /\ caller[t].pc = "idle"
    /\ registry.slot = 0
    /\ registry' = [registry EXCEPT !.torn = TRUE]
    /\ caller' = [caller EXCEPT ![t] =
          Ended([caller[t] EXCEPT !.fn = "close", !.path = "empty"],
                "returned", None, registry)]
    /\ UNCHANGED <<policy, call, attempts, delays, outcomes, mgr, backend, op, pool, scope,
                 sync, loop, kv, diag>>

\* close_database(): disconnect() returns at once (no handle); _db = None
RegCloseUnconnected(t) ==
    /\ caller[t].pc = "idle"
    /\ registry.slot # 0
    /\ ~AlreadyConnected(Instance(registry, registry.slot))
    /\ registry' = [registry EXCEPT !.slot = 0, !.torn = TRUE]
    /\ caller' = [caller EXCEPT ![t] =
          Ended([caller[t] EXCEPT !.fn = "close", !.db = registry.slot,
                                  !.path = "unconnected"],
                "returned", None, registry')]
    /\ UNCHANGED <<policy, call, attempts, delays, outcomes, mgr, backend, op, pool, scope,
                 sync, loop, kv, diag>>

\* close_database(): await _db.disconnect() awaits self.pool.close()
RegCloseBegin(t) ==
    /\ caller[t].pc = "idle"
    /\ registry.slot # 0
    /\ AlreadyConnected(Instance(registry, registry.slot))
    /\ registry' = [registry EXCEPT !.torn = TRUE]
    /\ caller' = [caller EXCEPT ![t] =
          [caller[t] EXCEPT !.pc = "closing", !.fn = "close", !.db = registry.slot,
                            !.pool = registry.handle[registry.slot],
                            !.path = "connected"]]
    /\ UNCHANGED <<policy, call, attempts, delays, outcomes, mgr, backend, op, pool, scope,
                 sync, loop, kv, diag>>

\* close() returned: self.pool = None; back in close_database: _db = None
RegCloseOk(t) ==
    /\ caller[t].pc = "closing"
    /\ registry' = [registry EXCEPT !.handle[caller[t].db] = 0, !.slot = 0,
                                    !.closed = registry.closed \cup {caller[t].pool}]
    /\ caller' = [caller EXCEPT ![t] = Ended(caller[t], "returned", None, registry')]
    /\ UNCHANGED <<policy, call, attempts, delays, outcomes, mgr, backend, op, pool, scope,
                 sync, loop, kv, diag>>

\* close() raised: the exception leaves disconnect() and close_database();
\* neither self.pool = None nor _db = None is executed
RegCloseFails(t) ==
    /\ caller[t].pc = "closing"
    /\ caller' = [caller EXCEPT ![t] =
          Ended(caller[t], "raised", "ConnectionError", registry)]
    /\ UNCHANGED <<policy, call, attempts, delays, outcomes, mgr, backend, op, pool, scope, registry,
                 sync, loop, kv, diag>>

\* the task drops the outcome of its call and is free to call again
RegForget(t) ==
    /\ caller[t].pc = "done"
    /\ caller' = [caller EXCEPT ![t] = IdleCaller]
    /\ UNCHANGED <<policy, call, attempts, delays, outcomes, mgr, backend, op, pool, scope, registry,
                 sync, loop, kv, diag>>

RegNext ==
    \E t \in Callers :
        \/ RegInitCall(t)
        \/ RegCreateOk(t)
        \/ RegCreateFails(t)
        \/ RegProbeOk(t)
        \/ RegInfoOk(t)
        \/ RegProbeFails(t)
        \/ RegWake(t)
        \/ RegCloseEmpty(t)
        \/ RegCloseUnconnected(t)
        \/ RegCloseBegin(t)
        \/ RegCloseOk(t)
        \/ RegCloseFails(t)
        \/ RegForget(t)

SpecReg == RegInit /\ [][RegNext]_vars

-----------------------------------------------------------------------------
(* Properties of the executor (SpecRetry).                                 *)

NumOutcomes == Len(outcomes)

\* the failure raised by invocation i is one the policy retries
RetryableAt(i) ==
    /\ ~outcomes[i].ok
    /\ Ancestors(outcomes[i].exc.kind) \cap policy.exceptions # {}

AllAttemptsFailedRetryable ==
    /\ NumOutcomes = policy.max_retries + 1
    /\ \A i \in 1 .. NumOutcomes : RetryableAt(i)

\* C1: when the wrapped function fails with a retryable failure on each of
\* max_retries+1 consecutive attempts, the executor raises RetryError whose
\* cause is the failure of the last attempt, after exactly max_retries+1
\* attempts and exactly max_retries delays, and takes no further step.
C1_ExhaustedRaisesRetryError ==
    AllAttemptsFailedRetryable =>
        /\ call.pc = "raised"
        /\ call.error.kind = "RetryError"
        /\ call.error.cause = outcomes[NumOutcomes].exc
        /\ outcomes[NumOutcomes].exc.at = policy.max_retries + 1
        /\ attempts = policy.max_retries + 1
        /\ Len(delays) = policy.max_retries
        /\ ~ENABLED RetryNext

C1_Witness ==
    /\ AllAttemptsFailedRetryable
    /\ policy.max_retries = 3
    /\ call.pc = "raised"

\* C2: the wrapped function is never invoked more than max_retries+1 times,
\* and a successful attempt is the last one: its value is returned at once,
\* with no further attempt and no further delay.
C2_BoundedAttemptsSuccessReturns ==
    /\ attempts <= policy.max_retries + 1
    /\ attempts = NumOutcomes
    /\ \A i \in 1 .. NumOutcomes :
          outcomes[i].ok =>
              /\ i = NumOutcomes
              /\ call.pc = "returned"
              /\ call.result = outcomes[i].val
              /\ attempts = i
              /\ Len(delays) = i - 1
              /\ ~ENABLED RetryNext

C2_Witness ==
    /\ NumOutcomes = 3
    /\ outcomes[3].ok
    /\ call.pc = "returned"
    /\ policy.max_retries = 3

\* the example of the specification: fails 3 times, then succeeds
FailsThreeTimesThenSucceeds ==
    /\ policy.max_retries = 3 /\ policy.initial_delay = 1
    /\ policy.exponential_base = 2 /\ policy.max_delay = 60
    /\ ~policy.jitter
    /\ NumOutcomes = 4
    /\ \A i \in 1 .. 3 : RetryableAt(i)
    /\ outcomes[4].ok

\* C3: without jitter the delay slept after the failed attempt with index k
\* is exactly min(initial_delay * exponential_base^k, max_delay); with
\* max_retries=3, initial_delay=1, base=2 and three failures then a success
\* the value is returned after 4 attempts and the delays are [1, 2, 4].
C3_DeterministicDelays ==
    /\ ~policy.jitter =>
          \A i \in 1 .. Len(delays) :
             LET k == i - 1
                 raw == policy.initial_delay * (policy.exponential_base ^ k)
             IN delays[i] = Unit * (IF raw < policy.max_delay THEN raw
                                    ELSE policy.max_delay)
    /\ FailsThreeTimesThenSucceeds =>
          /\ call.pc = "returned"
          /\ call.result = outcomes[4].val
          /\ attempts = 4
          /\ delays = <<1 * Unit, 2 * Unit, 4 * Unit>>

C3_Witness == FailsThreeTimesThenSucceeds

\* C4: a failure outside the policy's retryable set, at any attempt, is
\* propagated unchanged (not wrapped in RetryError), with no delay after it
\* and no further attempt; on the first attempt: one attempt, zero delays.
C4_NonRetryablePropagates ==
    \A i \in 1 .. NumOutcomes :
        (~outcomes[i].ok /\ ~RetryableAt(i)) =>
            /\ i = NumOutcomes
            /\ call.pc = "raised"
            /\ call.error = outcomes[i].exc
            /\ attempts = i
            /\ Len(delays) = i - 1
            /\ ~ENABLED RetryNext

C4_Witness ==
    /\ NumOutcomes = 2
    /\ ~outcomes[2].ok /\ ~RetryableAt(2)
    /\ RetryableAt(1)
    /\ call.pc = "raised"

\* C5: with jitter every delay slept after the failed attempt with index k
\* lies in [0.5 * d_k, 1.0 * d_k), d_k the unjittered delay of that index.
C5_JitterWithinHalfToOne ==
    policy.jitter =>
        \A i \in 1 .. Len(delays) :
           LET d == Unit * BackoffSeconds(policy, i - 1)
           IN 2 * delays[i] >= d /\ delays[i] < d

-----------------------------------------------------------------------------
(* Properties of the managers (SpecConn).                                  *)

\* C6: a connect() called while the manager is Connected is a no-op: it
\* returns without error after one invocation and no delay, constructs no
\* pool/client and leaves the handle as it was (for Database and Cache).
C6_SecondConnectIsNoop ==
    (op.name = "connect" /\ op.before # 0) =>
        /\ call.pc \in {"attempt", "returned"}
        /\ mgr.handle = op.before
        /\ backend.constructed = op.built
        /\ call.pc = "returned" =>
              /\ attempts = 1
              /\ delays = <<>>
              /\ call.error = NoExc

C6_Witness ==
    /\ op.name = "connect" /\ op.before = 1
    /\ call.pc = "returned"
    /\ backend.constructed = 1
    /\ 1 \in backend.probed

\* C7: when connect() on a Disconnected manager ends by propagating an
\* error, the manager is Disconnected afterwards (its handle is absent),
\* whichever step failed.
C7_FailedConnectLeavesDisconnected ==
    (op.name = "connect" /\ op.before = 0 /\ call.pc = "raised") =>
        mgr.handle = 0

\* C8: connect() on a Disconnected manager returns without error only if
\* the liveness probe succeeded on the pool the manager then holds.
C8_ReturnsOnlyAfterProbe ==
    (op.name = "connect" /\ op.before = 0 /\ call.pc = "returned") =>
        /\ mgr.handle # 0
        /\ mgr.handle \in backend.probed

\* C9: every operation other than connect/disconnect, for any arguments,
\* invoked while the manager is Disconnected raises the not-connected error,
\* returns no default value and makes no call to the backend.
C9_DisconnectedOperationRaises ==
    (op.name \in DatabaseOps \cup CacheOps /\ op.before = 0) =>
        /\ op.status = "raised"
        /\ op.error.kind = "RuntimeError"
        /\ op.result = None
        /\ op.calls = 0

\* C13: while the Cache manager is Connected no key-value operation
\* propagates a backend error: the call returns, and on a backend failure
\* it returns its safe default (None for get/get_json, False for
\* set/delete/exists/set_json/expire/flush, 0 for increment, [] for keys).
C13_CacheReturnsSafeDefault ==
    (op.name \in CacheOps /\ op.before # 0) =>
        /\ op.status = "returned"
        /\ op.error = NoExc
        /\ op.env = "error" =>
              /\ op.name \in {"get", "get_json"} => op.result = "None"
              /\ op.name \in {"set", "delete", "exists", "set_json",
                               "expire", "flush"} => op.result = "False"
              /\ op.name = "increment" => op.result = "0"
              /\ op.name = "keys" => op.result = "[]"

C13_Witness ==
    /\ op.name = "increment" /\ op.before # 0
    /\ op.env = "error"
    /\ op.calls = 1
    /\ op.result = "0"

\* C27: on a Connected cache get_json returns None, and does not raise, when
\* the stored string is not valid JSON; set_json returns False, does not
\* raise and writes nothing to the backend when json.dumps cannot serialise
\* the value.
C27_JsonErrorsGiveSafeDefaults ==
    (mgr.kind = "Cache" /\ op.before # 0) =>
        /\ (op.name = "get_json" /\ op.env = "garbage") =>
              (op.status = "returned" /\ op.result = None /\ op.calls = 1)
        /\ (op.name = "set_json" /\ op.arg = "unserializable") =>
              (op.status = "returned" /\ op.result = "False" /\ op.calls = 0)

C27_Witness ==
    /\ mgr.kind = "Cache"
    /\ op.before # 0
    /\ op.name = "set_json"
    /\ op.arg = "unserializable"
    /\ op.status = "returned"
    /\ op.result = "False"
    /\ op.calls = 0

\* C15: disconnect() never raises: on a Disconnected manager it is a no-op,
\* and on a Connected manager it ends with the manager Disconnected (handle
\* absent) even when closing the underlying pool/client fails.
C15_DisconnectNeverRaises ==
    op.name = "disconnect" =>
        /\ op.status = "returned"
        /\ mgr.handle = 0

\* C20: a Connected manager becomes Disconnected only by an explicit
\* disconnect(): no connect() (successful, no-op or failing), no operation
\* and no operation failure clears or replaces the handle of a Connected
\* manager.
C20_OnlyDisconnectClearsHandle ==
    [][(mgr.handle # 0 /\ mgr'.handle = 0) =>
          (op'.name = "disconnect" /\ op'.status = "returned")]_vars

C20_Witness ==
    /\ op.name \in DatabaseOps
    /\ op.status = "raised"
    /\ op.before # 0
    /\ op.calls = 1
    /\ mgr.handle = op.before

-----------------------------------------------------------------------------
(* Properties of the transaction scope (SpecTxn).                          *)

\* the scope of task t was entered and has been left
ScopeExited(t) == scope[t].pc = "done" /\ scope[t].entered

\* at the exit of the scope exactly one of commit (no exception in the
\* block) or rollback (an exception in the block) is attempted, and the
\* connection goes back to the pool only after that attempt
ExitOrder(t) ==
    LET sc == scope[t]
    IN /\ sc.pc \in {"acquired", "block", "exit"} =>
             /\ sc.commits + sc.rollbacks = 0
             /\ pool[sc.conn] = t
       /\ sc.pc = "release" =>
             /\ sc.commits + sc.rollbacks = 1
             /\ pool[sc.conn] = t
       /\ (sc.pc \in {"release", "done"} /\ sc.entered) =>
             /\ sc.commits = (IF sc.exc = NoExc THEN 1 ELSE 0)
             /\ sc.rollbacks = (IF sc.exc = NoExc THEN 0 ELSE 1)
       /\ ScopeExited(t) => pool[sc.conn] # t

\* the pool's available count is what it was before the borrow: of the
\* connections that are not lent to other tasks, as many are in the pool as
\* before the scope borrowed one (lentBefore were lent to t at that time)
AvailableRestored(t) ==
    Cardinality(FreeConns)
        = PoolMaxSize - Cardinality(LentToOthers(t)) - scope[t].lentBefore

\* C10 (as amended): at the exit of a TransactionScope exactly one of commit
\* or rollback is attempted and the connection is returned to the pool only
\* after it; after an exception inside the block an exception propagates and
\* the pool's available count is restored; if the rollback succeeded the
\* transaction is RolledBack and it is the block's exception that
\* propagates, and if the rollback itself failed the transaction is not
\* RolledBack and the rollback's error propagates instead.
C10_ExitCommitsOrRollsBackThenReleases ==
    \A t \in Tasks :
        /\ ExitOrder(t)
        /\ (ScopeExited(t) /\ scope[t].exc # NoExc) =>
              /\ AvailableRestored(t)
              /\ scope[t].out # NoExc
              /\ scope[t].trans \in {"RolledBack", "Failed"}
              /\ scope[t].trans = "RolledBack" => scope[t].out = scope[t].exc
              /\ scope[t].trans = "Failed" => scope[t].out.from = "rollback"

C10_Witness ==
    \E t \in Tasks :
        /\ ScopeExited(t)
        /\ scope[t].exc # NoExc
        /\ scope[t].trans = "RolledBack"
        /\ scope[t].lentBefore = 0
        /\ Cardinality(FreeConns) = PoolMaxSize

\* C10 (as claimed): ... after an exception inside the block the
\* transaction is RolledBack, the exception still propagates to the caller,
\* and the pool's available count equals its value before the borrow.
C10_AsClaimed ==
    \A t \in Tasks :
        /\ ExitOrder(t)
        /\ (ScopeExited(t) /\ scope[t].exc # NoExc) =>
              /\ AvailableRestored(t)
              /\ scope[t].trans = "RolledBack"
              /\ scope[t].out = scope[t].exc

\* C11: when the commit or the rollback performed at the exit of a
\* TransactionScope itself fails, the borrowed connection is still returned
\* to the pool before the failure propagates: the scope leaves no more
\* connections lent than before its borrow.
C11_ReleasedWhenCommitOrRollbackFails ==
    \A t \in Tasks :
        (scope[t].entered /\ scope[t].trans = "Failed") =>
            /\ scope[t].pc \in {"release", "done"}
            /\ scope[t].out.from \in {"commit", "rollback"}
            /\ scope[t].pc = "release" => pool[scope[t].conn] = t
            /\ scope[t].pc = "done" =>
                  /\ pool[scope[t].conn] # t
                  /\ Cardinality(LentTo(t)) = scope[t].lentBefore

C11_Witness ==
    \E t \in Tasks :
        /\ ScopeExited(t)
        /\ scope[t].trans = "Failed"
        /\ scope[t].out.from = "commit"
        /\ FreeConns = Conns

\* C12: every connection borrowed by transaction() is returned on every
\* exit path: once all scopes have ended (normal exit, exception in the
\* block, failure to begin the transaction, cancellation) no connection of
\* the pool is borrowed.
C12_NoConnectionStaysBorrowed ==
    (\A t \in Tasks : scope[t].pc \in {"idle", "done"}) => FreeConns = Conns

\* C14: each relational operation (execute, fetch, fetchone, fetchval) on a
\* Connected manager holds exactly one borrowed connection while it runs
\* and has returned it when the call ends, whether the statement succeeded
\* or failed; the statement is run once (no retry) and its failure is what
\* the caller gets (not swallowed, not replaced by a default).
C14_OperationBorrowsAndReturnsOne ==
    \A t \in Tasks :
        scope[t].what \in RelationalOps =>
            /\ scope[t].pc \in {"stmt", "oprelease", "done"}
            /\ scope[t].pc = "stmt" =>
                  /\ scope[t].stmts = 0
                  /\ pool[scope[t].conn] = t
                  /\ Cardinality(LentTo(t)) = scope[t].lentBefore + 1
            /\ scope[t].pc = "oprelease" =>
                  /\ scope[t].stmts = 1
                  /\ pool[scope[t].conn] = t
                  /\ Cardinality(LentTo(t)) = scope[t].lentBefore + 1
            /\ scope[t].pc = "done" =>
                  /\ scope[t].stmts = 1
                  /\ scope[t].conn = 0
                  /\ Cardinality(LentTo(t)) = scope[t].lentBefore
                  /\ scope[t].out = scope[t].exc

C14_Witness ==
    \E t \in Tasks :
        /\ scope[t].what = "fetchval"
        /\ scope[t].pc = "done"
        /\ scope[t].exc # NoExc
        /\ scope[t].out.kind = "PostgresError"
        /\ FreeConns = Conns

CancelledInBlock(t) ==
    scope[t].exc = [kind |-> "CancelledError", from |-> "block"]

\* C24 (as amended): when the task is cancelled inside the block of a
\* TransactionScope, the scope attempts the rollback (never the commit) and
\* only then returns the connection to the pool, so that the scope leaves no
\* connection borrowed; if the rollback succeeded the transaction is
\* RolledBack and the cancellation propagates, and if the rollback itself
\* failed the rollback's error propagates in place of the cancellation.
C24_CancelledBlockRollsBackThenReleases ==
    \A t \in Tasks :
        CancelledInBlock(t) =>
            /\ scope[t].commits = 0
            /\ scope[t].pc = "exit" => (scope[t].rollbacks = 0 /\ pool[scope[t].conn] = t)
            /\ scope[t].pc = "release" =>
                  (scope[t].rollbacks = 1 /\ pool[scope[t].conn] = t)
            /\ scope[t].pc = "done" =>
                  /\ scope[t].rollbacks = 1
                  /\ pool[scope[t].conn] # t
                  /\ Cardinality(LentTo(t)) = scope[t].lentBefore
                  /\ scope[t].trans = "RolledBack" => scope[t].out = scope[t].exc
                  /\ scope[t].trans # "RolledBack" =>
                        (scope[t].trans = "Failed" /\ scope[t].out.from = "rollback")

C24_Witness ==
    \E t \in Tasks :
        /\ CancelledInBlock(t)
        /\ scope[t].pc = "done"
        /\ scope[t].trans = "RolledBack"
        /\ scope[t].out.kind = "CancelledError"
        /\ FreeConns = Conns

\* C24 (as claimed): a cancelled block always ends with the transaction
\* rolled back, the connection returned and the cancellation propagating.
C24_AsClaimed ==
    \A t \in Tasks :
        (CancelledInBlock(t) /\ scope[t].pc = "done") =>
            /\ scope[t].trans = "RolledBack"
            /\ scope[t].out.kind = "CancelledError"
            /\ pool[scope[t].conn] # t

\* the task holds the connection scope[t].conn: its scope is open (from the
\* borrow to the release at the exit) or its operation is under way
InScope(t) == scope[t].pc \in {"acquired", "block", "exit", "release"}
InOperation(t) == scope[t].pc \in {"stmt", "oprelease"}

\* C25: under any interleaving of transaction scopes and relational
\* operations, the connection held by an open TransactionScope is held by
\* no other scope and used by no other task's operation, and the pool
\* records it as lent to the scope's task, until the scope releases it.
C25_ScopeOwnsItsConnection ==
    \A t \in Tasks :
        InScope(t) =>
            /\ scope[t].conn \in Conns
            /\ pool[scope[t].conn] = t
            /\ \A u \in Tasks \ {t} :
                  (InScope(u) \/ InOperation(u)) => scope[u].conn # scope[t].conn

C25_Witness ==
    \E t \in Tasks : \E u \in Tasks \ {t} :
        /\ scope[t].pc = "block"
        /\ scope[u].pc = "stmt"
        /\ scope[u].conn # scope[t].conn
        /\ FreeConns = {}

\* C26: under fair scheduling a task whose borrow is suspended because all
\* PoolMaxSize connections are borrowed is eventually granted a connection,
\* whatever the other tasks' operations and scopes do, failures of begin,
\* commit and rollback included.
C26_SuspendedBorrowIsGranted ==
    \A t \in Tasks :
        (scope[t].pc = "idle" /\ FreeConns = {}) ~> (InScope(t) \/ InOperation(t))

-----------------------------------------------------------------------------
(* Properties of the registry (SpecReg).                                   *)

InitReturned(t) ==
    /\ caller[t].pc = "done"
    /\ caller[t].fn = "init"
    /\ caller[t].status = "returned"

\* C16: the registry slot holds a manager only if a connect() on it has
\* completed successfully; in particular, when the connect() performed by
\* init_database / init_cache fails, no instance is left stored in the slot.
C16_NoInstanceStoredAfterFailedInit ==
    \A t \in Callers :
        (caller[t].pc = "done" /\ caller[t].fn = "init"
                /\ caller[t].status = "raised") =>
            caller[t].after # caller[t].db

\* C17: when the registry holds a connected manager, a call of init_database
\* / init_cache returns that same instance, constructs no manager and no
\* pool (the registry is left as it was), however often it is repeated.
C17_StoredInstanceIsReturned ==
    [][\A t \in Callers :
          (/\ caller[t].pc = "idle"
           /\ caller'[t].fn = "init"
           /\ registry.slot # 0
           /\ registry.handle[registry.slot] # 0) =>
              (/\ caller'[t].pc = "done"
               /\ caller'[t].status = "returned"
               /\ caller'[t].db = registry.slot
               /\ registry' = registry)]_vars

C17_Witness ==
    /\ \A t \in Callers : InitReturned(t) /\ caller[t].path = "stored"
                               /\ caller[t].db = registry.slot
    /\ registry.made = 1
    /\ registry.pools = 1

\* C18: close_database / close_cache calls disconnect() on the stored
\* instance, if any, and leaves the slot absent; with an empty slot it is a
\* no-op.
C18_TeardownLeavesSlotAbsent ==
    \A t \in Callers :
        (caller[t].pc = "done" /\ caller[t].fn = "close") =>
            /\ caller[t].status = "returned"
            /\ caller[t].after = 0

\* C19: when several tasks call init_database / init_cache concurrently on
\* an empty registry (and no teardown is called), at most one manager is
\* constructed and every call that returns returns that same instance.
C19_ConcurrentInitMakesOneInstance ==
    ~registry.torn =>
        /\ registry.made <= 1
        /\ \A t \in Callers :
              InitReturned(t) => (caller[t].db = 1 /\ registry.slot = 1)

C19_Witness ==
    /\ ~registry.torn
    /\ \A t \in Callers : InitReturned(t) /\ caller[t].db = registry.slot
    /\ \E t \in Callers : caller[t].path = "fresh"
    /\ \E t \in Callers : caller[t].path = "joined"
    /\ registry.made = 1
    /\ registry.pools = 2

-----------------------------------------------------------------------------
(* Properties of the two wrappers side by side (SpecSync).                 *)

SameObservations ==
    /\ sync.call.pc = call.pc
    /\ sync.attempts = attempts
    /\ sync.delays = delays
    /\ sync.call.result = call.result
    /\ sync.call.error = call.error

\* C21: for the same policy, the same outcome of every invocation and the
\* same values of random.random(), sync_wrapper and async_wrapper make the
\* same number of attempts, sleep the same sequence of delays and end with
\* the same result or the same error.
C21_WrappersAgreeOnSameDraws == sync.same => SameObservations

C21_Witness ==
    /\ sync.same
    /\ policy.jitter
    /\ Len(delays) >= 2
    /\ Len(sync.delays) >= 2
    /\ call.pc = "returned"
    /\ sync.call.pc = "returned"

\* C21 as stated: the same policy and the same outcomes alone determine the
\* delays of both wrappers.
C21_AsClaimed == SameObservations

-----------------------------------------------------------------------------
(* Properties of the tasks of one event loop (SpecLoop).                   *)

\* C22: while one task is in a retry backoff delay, every other task is
\* able to take its next step on the shared pool: to borrow a connection
\* when one is free, to run its statement, to return its connection.
C22_DelayBlocksOnlyRetryingTask ==
    \A t \in Tasks : \A u \in Tasks \ {t} :
        (loop[t].pc = "sleep" /\ loop[u].pc = "idle") =>
            /\ (scope[u].pc = "idle" /\ FreeConns # {}) => ENABLED LoopBorrow(u)
            /\ scope[u].pc = "stmt" => ENABLED LoopStatement(u)
            /\ scope[u].pc = "oprelease" => ENABLED LoopRelease(u)

-----------------------------------------------------------------------------
(* Properties of a cancelled call (SpecCancel).                            *)

\* C23: when the task is cancelled during a backoff delay, the call ends
\* with CancelledError reaching the caller (not retried, not wrapped in
\* RetryError), func is not invoked again and no further delay is slept:
\* the invocations and the delays are those made up to the cancelled sleep.
C23_CancelledSleepEndsTheCall ==
    op.name = "cancel" =>
        /\ call.pc = "raised"
        /\ call.error = [kind |-> "CancelledError"]
        /\ attempts = call.attempt + 1
        /\ Len(outcomes) = attempts
        /\ Len(delays) = attempts
        /\ \A i \in 1 .. Len(outcomes) : ~outcomes[i].ok

C23_Witness ==
    /\ op.name = "cancel"
    /\ call.pc = "raised"
    /\ call.error.kind = "CancelledError"
    /\ call.attempt = 1
    /\ attempts = 2
    /\ policy.max_retries = 3

-----------------------------------------------------------------------------
(* Properties of the cache on its keyspace (SpecKv).                       *)

\* C28: on a connected cache whose backend answers, get_json(k) returns a
\* value equal to v when k was last written by a set_json(k, v) that
\* returned True, v being made of None, bool, int, str, list and dict with
\* str keys, nested or not.
C28_GetJsonAfterSetJson ==
    (kv.last.name = "get_json" /\ kv.last.ok) =>
        LET entry == kv.store[kv.last.key]
        IN (entry.present /\ entry.json /\ entry.v \in JsonValues) =>
              kv.last.py = entry.v

C28_Witness ==
    /\ kv.last.name = "get_json"
    /\ kv.last.ok
    /\ kv.store[kv.last.key].json
    /\ kv.store[kv.last.key].v = TestJson
    /\ kv.last.py = TestJson

\* C29: on a connected cache whose backend answers, increment(k, a) on an
\* absent key returns a, and on a key holding an integer n it returns n + a;
\* the key then holds the value returned.
C29_IncrementAddsToPrevious ==
    (kv.last.name = "increment" /\ kv.last.ok) =>
        LET was == kv.last.before
            now == kv.store[kv.last.key]
        IN /\ ~was.present =>
                 /\ kv.last.n = kv.last.amount
                 /\ now.present /\ ParseInteger(now.text) = [ok |-> TRUE, n |-> kv.last.n]
           /\ (was.present /\ ParseInteger(was.text).ok) =>
                 /\ kv.last.n = ParseInteger(was.text).n + kv.last.amount
                 /\ now.present /\ ParseInteger(now.text) = [ok |-> TRUE, n |-> kv.last.n]

C29_Witness ==
    /\ kv.last.name = "increment"
    /\ kv.last.ok
    /\ kv.last.amount = 3
    /\ kv.last.before = Holding(<<Digit(5)>>, FALSE, PyNone)
    /\ kv.last.n = 8
    /\ kv.store[kv.last.key].text = <<Digit(8)>>

-----------------------------------------------------------------------------
(* Properties of the diagnostic entry point (SpecDiag).                    *)

\* C30: the diagnostic entry point ends with exit code 0 exactly when every
\* step of the relational sequence and of the cache sequence succeeded, the
\* compare steps included, and with 1 otherwise.
C30_ExitZeroIffAllStepsSucceeded ==
    diag.pc = "exited" =>
        /\ diag.exit \in {0, 1}
        /\ diag.exit = 0 <=> diag.failed = {}

-----------------------------------------------------------------------------
(* Properties of the error of an exhausted call (SpecCancel).              *)

\* C31: the RetryError raised by the executor carries the last underlying
\* failure as its cause and the number of attempts made (max_retries + 1),
\* and it is raised only when a retryable failure persisted through the
\* whole budget: never after a success, never for a failure that is not
\* retryable, never for a cancellation.
C31_RetryErrorCarriesCauseAndAttempts ==
    (call.pc = "raised" /\ call.error.kind = "RetryError") =>
        /\ call.error.cause = outcomes[NumOutcomes].exc
        /\ call.error.message.retries = attempts
        /\ attempts = policy.max_retries + 1
        /\ AllAttemptsFailedRetryable
        /\ op.name # "cancel"

\* C32: each test sequence tears its resource down on every path
\* (close_database / close_cache run to their end whether the sequence
\* succeeded, failed at a step or failed to connect), the cache sequence is
\* run even when the relational sequence failed, and the relational teardown
\* completes before the cache sequence starts, so that both registry slots
\* are absent when main returns.
C32_TeardownOnEveryPath ==
    /\ diag.pc \in {"test_redis", "redis", "close_cache"} =>
          /\ "close_database" \in diag.torn
          /\ ~diag.stored._db
    /\ diag.pc = "exited" =>
          /\ diag.torn = {"close_database", "close_cache"}
          /\ ~diag.stored._db
          /\ ~diag.stored._cache

-----------------------------------------------------------------------------
(* Further properties of the retry executor (SpecRetry).                   *)

\* C33: no delay slept by the executor exceeds the policy's max_delay, for
\* every attempt index, with jitter enabled or disabled.
C33_NoDelayAboveMaxDelay ==
    \A i \in 1 .. Len(delays) : delays[i] <= policy.max_delay * Unit

-----------------------------------------------------------------------------
(* Further properties of the registry and of concurrent connect() calls    *)
(* (SpecReg).                                                              *)

\* C34: when two or more tasks call connect() concurrently on the same
\* disconnected manager, at most one pool/client is constructed, and every
\* pool that was constructed is the current pool of its manager or has been
\* closed: no pool is overwritten and leaked.
C34_ConcurrentConnectMakesOnePool ==
    /\ ~registry.torn => registry.pools <= 1
    /\ \A p \in 1 .. registry.pools :
          \/ p \in registry.closed
          \/ \E i \in Instances : registry.handle[i] = p

\* the manager instances whose pool/client handle is set
ConnectedInstances == {i \in Instances : AlreadyConnected(Instance(registry, i))}

\* C35: under any interleaving of init_database / init_cache and
\* close_database / close_cache calls by several tasks, at most one manager
\* of the kind is connected at any time, and every connected manager is the
\* one stored in the registry slot (a teardown never clears the slot of an
\* instance it did not disconnect).
C35_OneLiveInstanceInTheSlot ==
    /\ Cardinality(ConnectedInstances) <= 1
    /\ \A i \in ConnectedInstances : registry.slot = i

-----------------------------------------------------------------------------
(* Termination of a call of the retry executor (SpecRetryFair).            *)

CallEnded == call.pc \in {"returned", "raised"}

\* C36: for every policy with max_retries >= 0 and a wrapped function that
\* terminates, a call of the executor terminates after invoking the function
\* at least once, and it ends only by returning an attempt's result, by
\* propagating a failure that is not retryable, or by raising RetryError
\* from inside the loop: the statements after the loop are never reached.
C36_CallEndsInsideTheLoop ==
    /\ <>CallEnded
    /\ [](call.pc # "after_loop")
    /\ [](CallEnded =>
            /\ attempts >= 1
            /\ attempts = NumOutcomes
            /\ \/ /\ call.pc = "returned"
                  /\ outcomes[NumOutcomes].ok
                  /\ call.result = outcomes[NumOutcomes].val
               \/ /\ call.pc = "raised"
                  /\ ~RetryableAt(NumOutcomes)
                  /\ call.error = outcomes[NumOutcomes].exc
               \/ /\ call.pc = "raised"
                  /\ RetryableAt(NumOutcomes)
                  /\ call.error = RetryError(policy, outcomes[NumOutcomes].exc)
                  /\ call.attempt = policy.max_retries)

C36_Witness ==
    /\ call.pc = "returned"
    /\ policy.max_retries = 2
    /\ attempts = policy.max_retries + 1
    /\ Len(delays) = policy.max_retries

=============================================================================
